---------------------------- MODULE Spec2Model ----------------------------
(***************************************************************************)
(* NetGuard-AI: the real-time analysis pipeline of src/realtime_analyzer.py *)
(* (class RealTimeAnalyzer): packet capture into a bounded deque, the       *)
(* periodic analysis loop, the rule-based / model-based threat scorer, the  *)
(* bounded prediction queue and the two files written for the dashboard.    *)
(*                                                                          *)
(* Real-valued quantities (rates, entropies, confidences) are exact         *)
(* rationals [n, d] with d > 0; they are compared by cross-multiplication.  *)
(***************************************************************************)
EXTENDS Integers, Sequences, FiniteSets, TLC

(***************************************************************************)
(* Rationals.                                                               *)
(***************************************************************************)
Rat(n, d) == [n |-> n, d |-> d]
RInt(k) == Rat(k, 1)
RLt(a, b) == a.n * b.d < b.n * a.d
RLe(a, b) == a.n * b.d <= b.n * a.d
RGt(a, b) == RLt(b, a)
REq(a, b) == a.n * b.d = b.n * a.d
RMin(a, b) == IF RLt(b, a) THEN b ELSE a
RDivInt(a, k) == Rat(a.n, a.d * k)

(***************************************************************************)
(* Thresholds and fixed confidences of _rule_based_prediction.              *)
(***************************************************************************)
DosRateThreshold == 100
DosRateScale == 200
PortScanThreshold == 50
PortScanScale == 100
LargePacketThreshold == 1400
LargeTcpThreshold == 10
PatternPacketThreshold == 20
EntropyThreshold == Rat(1, 2)
LargePacketConfidence == Rat(6, 10)
PatternConfidence == Rat(5, 10)
ZeroConfidence == Rat(0, 1)
OneConfidence == Rat(1, 1)

(***************************************************************************)
(* _get_default_features: the 27 named features, all zero.                  *)
(***************************************************************************)
DefaultFeatures ==
    [total_packets |-> 0, unique_src_ips |-> 0, unique_dst_ips |-> 0,
     unique_src_ports |-> 0, unique_dst_ports |-> 0, total_bytes |-> 0,
     mean_packet_size |-> Rat(0, 1), max_packet_size |-> 0, min_packet_size |-> 0,
     std_packet_size |-> Rat(0, 1), tcp_packets |-> 0, udp_packets |-> 0,
     icmp_packets |-> 0, other_protocol_packets |-> 0, http_packets |-> 0,
     https_packets |-> 0, dns_packets |-> 0, ssh_packets |-> 0,
     mean_ttl |-> Rat(0, 1), min_ttl |-> 0, max_ttl |-> 0, duration |-> Rat(0, 1),
     packets_per_second |-> Rat(0, 1), max_src_ip_count |-> 0,
     max_dst_ip_count |-> 0, src_ip_entropy |-> Rat(0, 1), dst_ip_entropy |-> Rat(0, 1)]

(***************************************************************************)
(* _rule_based_prediction: four rules in an if / elif chain.                *)
(***************************************************************************)
Rule1Cond(features) == RGt(features.packets_per_second, RInt(DosRateThreshold))

Rule2Cond(features) == features.unique_dst_ports > PortScanThreshold

Rule3Cond_NonStrict(features) ==
    /\ features.max_packet_size >= LargePacketThreshold
    /\ features.tcp_packets >= LargeTcpThreshold

Rule3Cond(features) ==
    /\ features.max_packet_size > LargePacketThreshold
    /\ features.tcp_packets > LargeTcpThreshold

Rule4Cond(features) ==
    /\ RLt(features.dst_ip_entropy, EntropyThreshold)
    /\ features.total_packets > PatternPacketThreshold

\* The confidence of rule 1 without its cap.
Rule1Outcome_NoCap(features) ==
    [is_threat |-> TRUE, threat_type |-> "possible_dos_attack",
     confidence |-> RDivInt(features.packets_per_second, DosRateScale)]

Rule1Outcome(features) ==
    [is_threat |-> TRUE, threat_type |-> "possible_dos_attack",
     confidence |-> RMin(RDivInt(features.packets_per_second, DosRateScale),
                         OneConfidence)]

\* The confidence of rule 2 on the scale of rule 1.
Rule2Outcome_DosScale(features) ==
    [is_threat |-> TRUE, threat_type |-> "port_scan_detected",
     confidence |-> RMin(Rat(features.unique_dst_ports, DosRateScale), OneConfidence)]

\* The confidence of rule 2 without its cap.
Rule2Outcome_NoCap(features) ==
    [is_threat |-> TRUE, threat_type |-> "port_scan_detected",
     confidence |-> Rat(features.unique_dst_ports, PortScanScale)]

Rule2Outcome(features) ==
    [is_threat |-> TRUE, threat_type |-> "port_scan_detected",
     confidence |-> RMin(Rat(features.unique_dst_ports, PortScanScale),
                         OneConfidence)]

\* Rule 3 naming its category without raising the flag.
Rule3Outcome_NotFlagged ==
    [is_threat |-> FALSE, threat_type |-> "suspicious_large_packets",
     confidence |-> LargePacketConfidence]

Rule3Outcome ==
    [is_threat |-> TRUE, threat_type |-> "suspicious_large_packets",
     confidence |-> LargePacketConfidence]

Rule4Outcome ==
    [is_threat |-> TRUE, threat_type |-> "suspicious_pattern",
     confidence |-> PatternConfidence]

NormalOutcome ==
    [is_threat |-> FALSE, threat_type |-> "normal", confidence |-> ZeroConfidence]

\* The chain with rules 1 and 2 in the wrong order.
RuleChain_PortScanFirst(features) ==
    IF Rule2Cond(features) THEN Rule2Outcome(features)
    ELSE IF Rule1Cond(features) THEN Rule1Outcome(features)
    ELSE IF Rule3Cond(features) THEN Rule3Outcome
    ELSE IF Rule4Cond(features) THEN Rule4Outcome
    ELSE NormalOutcome

\* The chain with rule 4 forgotten.
RuleChain_NoRule4(features) ==
    IF Rule1Cond(features) THEN Rule1Outcome(features)
    ELSE IF Rule2Cond(features) THEN Rule2Outcome(features)
    ELSE IF Rule3Cond(features) THEN Rule3Outcome
    ELSE NormalOutcome

RuleChain(features) ==
    IF Rule1Cond(features) THEN Rule1Outcome(features)
    ELSE IF Rule2Cond(features) THEN Rule2Outcome(features)
    ELSE IF Rule3Cond(features) THEN Rule3Outcome
    ELSE IF Rule4Cond(features) THEN Rule4Outcome
    ELSE NormalOutcome

MkVerdict(now, outcome, features) ==
    [timestamp |-> now, is_threat |-> outcome.is_threat,
     threat_type |-> outcome.threat_type, confidence |-> outcome.confidence,
     features |-> features]

rule_based_prediction(features, now) == MkVerdict(now, RuleChain(features), features)


(***************************************************************************)
(* predict_threat.  A loaded model is opaque: `m` says what its invocation  *)
(* does for this feature vector.  The statements of the try block are       *)
(* numbered 1..6 (lines 238-239, 242, 246, 247, 249, 250); fail_at = k > 0  *)
(* makes statement k raise, fail_at = 0 lets the block complete.            *)
(* has_proba is hasattr(model, 'predict_proba'); statements 3 and 4 are     *)
(* executed only then.  proba is <<y_proba[0], y_proba[1]>>.                *)
(***************************************************************************)
InitialPrediction(features, now) == MkVerdict(now, NormalOutcome, features)

\* The statement that raises, 0 when none does (a model without predict_proba
\* never executes statements 3 and 4).
FailPoint(m) == IF m.fail_at \in {3, 4} /\ ~m.has_proba THEN 0 ELSE m.fail_at

Executed(m, k) ==
    /\ (FailPoint(m) = 0 \/ k < FailPoint(m))
    /\ (k \in {3, 4} => m.has_proba)

Raises(m) == FailPoint(m) # 0

\* The prediction dict as the try block leaves it (complete or abandoned).
ModelPath(m, features, now) ==
    LET p0 == InitialPrediction(features, now)
        p1 == IF Executed(m, 4)
              THEN [p0 EXCEPT !.confidence =
                        IF m.y_pred = 1 THEN m.proba[2] ELSE m.proba[1]]
              ELSE p0
        p2 == IF Executed(m, 5) THEN [p1 EXCEPT !.is_threat = (m.y_pred = 1)] ELSE p1
        p3 == IF Executed(m, 6)
              THEN [p2 EXCEPT !.threat_type =
                        IF m.y_pred = 1 THEN "ml_detected_threat" ELSE "normal"]
              ELSE p2
    IN p3

\* The except clause forgotten: the abandoned dict is returned.
predict_threat_NoFallback(loaded, m, features, now, later) ==
    IF loaded
    THEN ModelPath(m, features, now)
    ELSE rule_based_prediction(features, later)

predict_threat(loaded, m, features, now, later) ==
    IF loaded
    THEN IF Raises(m)
         THEN rule_based_prediction(features, later)
         ELSE ModelPath(m, features, now)
    ELSE rule_based_prediction(features, later)

ModelOutcome(fail_at, y_pred, has_proba, proba) ==
    [fail_at |-> fail_at, y_pred |-> y_pred, has_proba |-> has_proba, proba |-> proba]

(***************************************************************************)
(* Packet records (the dict built by _packet_callback).  A timestamp is a   *)
(* number of clock ticks; a field that is None in the code is None.                    *)
(***************************************************************************)
TicksPerSecond == 1000
None == -1
ProtoTCP == 6
ProtoUDP == 17
ProtoICMP == 1
PortHTTP == 80
PortHTTPS == 443
PortDNS == 53
PortSSH == 22

(***************************************************************************)
(* Arithmetic helpers for extract_flow_features.                            *)
(***************************************************************************)
Max2(a, b) == IF a >= b THEN a ELSE b

\* The sum of q[lo..hi], by halves.
RECURSIVE SumRange(_, _, _)
SumRange(q, lo, hi) ==
    IF lo > hi THEN 0
    ELSE IF lo = hi THEN q[lo]
    ELSE LET mid == (lo + hi) \div 2
         IN SumRange(q, lo, mid) + SumRange(q, mid + 1, hi)

SumSeq(q) == SumRange(q, 1, Len(q))

SetMax(S) == CHOOSE x \in S : \A y \in S : y <= x
SetMin(S) == CHOOSE x \in S : \A y \in S : x <= y

\* floor(sqrt(x)) by bisection on lo..hi.
RECURSIVE ISqrtIn(_, _, _)
ISqrtIn(x, lo, hi) ==
    IF lo >= hi THEN lo
    ELSE LET mid == (lo + hi + 1) \div 2
         IN IF mid * mid <= x THEN ISqrtIn(x, mid, hi) ELSE ISqrtIn(x, lo, mid - 1)

ISqrt(x) == ISqrtIn(x, 0, 46340)

\* floor(log2(k)) for k >= 1.
RECURSIVE FloorLog2(_)
FloorLog2(k) == IF k < 2 THEN 0 ELSE 1 + FloorLog2(k \div 2)

RECURSIVE Pow2(_)
Pow2(e) == IF e = 0 THEN 1 ELSE 2 * Pow2(e - 1)

\* Ten binary digits of log2(x / 2^14) for x / 2^14 in [1, 2), by squaring.
RECURSIVE Log2Bits(_, _, _)
Log2Bits(x, i, acc) ==
    IF i = 0 THEN acc
    ELSE LET sq == (x * x) \div 16384
         IN IF sq >= 32768
            THEN Log2Bits(sq \div 2, i - 1, 2 * acc + 1)
            ELSE Log2Bits(sq, i - 1, 2 * acc)

\* log2(k) in units of 1/1024, for 1 <= k <= 65535.
Log2Fix(k) ==
    LET e == FloorLog2(k)
    IN 1024 * e + Log2Bits((k * 16384) \div Pow2(e), 10, 0)

\* value_counts(): the count of every distinct value of a column, as a
\* function from the value to its count.
ValueCounts(col) ==
    [v \in {col[i] : i \in DOMAIN col} |->
        Cardinality({i \in DOMAIN col : col[i] = v})]

Column(packets, F(_)) == [i \in DOMAIN packets |-> F(packets[i])]

CountIf(packets, P(_)) == Cardinality({i \in DOMAIN packets : P(packets[i])})

\* _calculate_entropy: -sum(p * log2(p + 1e-9)) with p = count / len, that is
\* log2(len) - sum(count * log2(count)) / len; the logarithm has a resolution
\* of 1/1024 bit, below which the 1e-9 term stays.
calculate_entropy(col) ==
    LET vc == ValueCounts(col)
        n == Len(col)
        weighted == SumSeq([i \in 1..n |-> Log2Fix(vc[col[i]])])
    IN Rat(n * Log2Fix(n) - weighted, n * 1024)

(***************************************************************************)
(* extract_flow_features.                                                   *)
(***************************************************************************)
\* Only the destination port looked at.
WellKnownHits_DstOnly(packets, port) ==
    CountIf(packets, LAMBDA r : r.dst_port = port)

WellKnownHits(packets, port) ==
    CountIf(packets, LAMBDA r : r.dst_port = port \/ r.src_port = port)

Duration(packets) ==
    LET ts == {packets[i].timestamp : i \in DOMAIN packets}
    IN IF Len(packets) > 1 THEN Rat(SetMax(ts) - SetMin(ts), TicksPerSecond)
       ELSE Rat(0, 1)

\* The rate computed for a single packet too.
PacketsPerSecond_NoSingleGuard(packets) ==
    LET ts == {packets[i].timestamp : i \in DOMAIN packets}
        span == SetMax(ts) - SetMin(ts)
    IN Rat(Len(packets) * TicksPerSecond, Max2(TicksPerSecond, span))

\* The span floored at one tick of the clock instead of one second.
PacketsPerSecond_NoFloor(packets) ==
    LET ts == {packets[i].timestamp : i \in DOMAIN packets}
        span == SetMax(ts) - SetMin(ts)
    IN IF Len(packets) > 1
       THEN Rat(Len(packets) * TicksPerSecond, Max2(1, span))
       ELSE Rat(0, 1)

PacketsPerSecond(packets) ==
    LET ts == {packets[i].timestamp : i \in DOMAIN packets}
        span == SetMax(ts) - SetMin(ts)
    IN IF Len(packets) > 1
       THEN Rat(Len(packets) * TicksPerSecond, Max2(TicksPerSecond, span))
       ELSE Rat(0, 1)

\* Series.std(): the sample standard deviation (ddof = 1), to one decimal.
StdPacketSize(packets) ==
    LET n == Len(packets)
        sizes == Column(packets, LAMBDA r : r.size)
        total == SumSeq(sizes)
        squares == SumSeq([i \in 1..n |-> sizes[i] * sizes[i]])
    IN IF n > 1
       THEN Rat(ISqrt((100 * (n * squares - total * total)) \div (n * (n - 1))), 10)
       ELSE Rat(0, 1)

extract_flow_features(packets) ==
    IF packets = <<>> THEN DefaultFeatures
    ELSE
    LET n == Len(packets)
        sizes == Column(packets, LAMBDA r : r.size)
        ttls == Column(packets, LAMBDA r : r.ttl)
        srcs == Column(packets, LAMBDA r : r.src_ip)
        dsts == Column(packets, LAMBDA r : r.dst_ip)
        sizeSet == {sizes[i] : i \in 1..n}
        ttlSet == {ttls[i] : i \in 1..n}
        srcCounts == ValueCounts(srcs)
        dstCounts == ValueCounts(dsts)
    IN [total_packets |-> n,
        unique_src_ips |-> Cardinality(DOMAIN srcCounts),
        unique_dst_ips |-> Cardinality(DOMAIN dstCounts),
        unique_src_ports |-> Cardinality({packets[i].src_port : i \in 1..n} \ {None}),
        unique_dst_ports |-> Cardinality({packets[i].dst_port : i \in 1..n} \ {None}),
        total_bytes |-> SumSeq(sizes),
        mean_packet_size |-> Rat(SumSeq(sizes), n),
        max_packet_size |-> SetMax(sizeSet),
        min_packet_size |-> SetMin(sizeSet),
        std_packet_size |-> StdPacketSize(packets),
        tcp_packets |-> CountIf(packets, LAMBDA r : r.protocol = ProtoTCP),
        udp_packets |-> CountIf(packets, LAMBDA r : r.protocol = ProtoUDP),
        icmp_packets |-> CountIf(packets, LAMBDA r : r.protocol = ProtoICMP),
        other_protocol_packets |->
            CountIf(packets, LAMBDA r : r.protocol \notin {ProtoTCP, ProtoUDP, ProtoICMP}),
        http_packets |-> WellKnownHits(packets, PortHTTP),
        https_packets |-> WellKnownHits(packets, PortHTTPS),
        dns_packets |-> WellKnownHits(packets, PortDNS),
        ssh_packets |-> WellKnownHits(packets, PortSSH),
        mean_ttl |-> Rat(SumSeq(ttls), n),
        min_ttl |-> SetMin(ttlSet),
        max_ttl |-> SetMax(ttlSet),
        duration |-> Duration(packets),
        packets_per_second |-> PacketsPerSecond(packets),
        max_src_ip_count |-> SetMax({srcCounts[v] : v \in DOMAIN srcCounts}),
        max_dst_ip_count |-> SetMax({dstCounts[v] : v \in DOMAIN dstCounts}),
        src_ip_entropy |-> calculate_entropy(srcs),
        dst_ip_entropy |-> calculate_entropy(dsts)]

(***************************************************************************)
(* Bounds.  The capacities of the code are 10000 (the deque), 1000 (the     *)
(* queue) and 1000 (the predictions file); the model is checked with small  *)
(* capacities, in scopes that differ in what they make large: the packet    *)
(* buffer (Spec), the queue and the predictions file (QueueSpec), the       *)
(* sessions (FairSpec).  A scope also bounds what the environment does: the *)
(* sessions started, the packets that arrive, the cycles that score, the    *)
(* failures of extraction and of file input/output.                         *)
(***************************************************************************)
MaxSessions == 2
OneSession == 1
SmallCap == 1
SmallPred == 2
BufferCap == 2
MaxPackets == 3
QueueCap == 2
HistCap == 2
MaxPred == 3
MaxFaults == 1
WindowSize == 5
RacePackets == 2
MaxDetPackets == 2

BufferScope ==
    [sessions |-> OneSession, packets |-> MaxPackets, verdicts |-> SmallPred,
     faults |-> MaxFaults, buffer_cap |-> BufferCap, queue_cap |-> SmallCap,
     hist_cap |-> SmallCap]

QueueScope ==
    [sessions |-> OneSession, packets |-> SmallCap, verdicts |-> MaxPred,
     faults |-> MaxFaults, buffer_cap |-> SmallCap, queue_cap |-> QueueCap,
     hist_cap |-> HistCap]

RestartScope ==
    [sessions |-> MaxSessions, packets |-> SmallCap, verdicts |-> SmallPred,
     faults |-> MaxFaults, buffer_cap |-> SmallCap, queue_cap |-> SmallCap,
     hist_cap |-> SmallCap]

RaceScope ==
    [sessions |-> MaxSessions, packets |-> RacePackets, verdicts |-> SmallCap,
     faults |-> MaxFaults, buffer_cap |-> SmallCap, queue_cap |-> SmallCap,
     hist_cap |-> SmallCap]

StatsScope ==
    [sessions |-> OneSession, packets |-> SmallCap, verdicts |-> SmallPred,
     faults |-> MaxFaults, buffer_cap |-> SmallCap, queue_cap |-> SmallCap,
     hist_cap |-> SmallCap]

Sessions == 1..MaxSessions

VARIABLES
    scope,              \* the bounds in force (constant along a behaviour)
    faults,             \* failures of extraction and of file input/output so far
    running,            \* self.running
    model_loaded,       \* self.model is not None
    packet_buffer,      \* self.packet_buffer, oldest first
    prediction_queue,   \* self.prediction_queue, oldest first
    total_packets, total_predictions, threats_detected,
    capture_thread,     \* self.capture_thread: a session, 0 for None
    analysis_thread,    \* self.analysis_thread: a session, 0 for None
    nsessions,          \* threads created so far: session k is the k-th start()
    cap_pc, cap_tmp,    \* per capture thread: position, value read by += 1
    ana_pc,             \* per analysis thread: position in _analysis_loop
    ana_packets,        \* local `packets` of the current cycle
    ana_pred,           \* local `prediction` of the current cycle (<<>> if none)
    ana_tmp,            \* value read by the += 1 in progress
    ctl_pc,             \* the caller of start() / stop()
    pred_file,          \* data/ml_predictions.json
    stats_file,         \* data/ml_stats.json
    appended,           \* history: every record ever appended, in order
    snap_at,            \* history: Len(appended) when `packets` was copied
    ana_pub,            \* history: the publish in progress on a full queue
    npred,              \* history: verdicts built so far (the verdict clock)
    ana_hist,           \* local `predictions` of _save_prediction_for_dashboard
    taken,              \* what get_latest_prediction returned last (<<>> for None)
    stop_log,           \* what stop() has logged last
    start_log,          \* what start() has logged last
    st_pc, st_stats,    \* the caller of get_statistics: position, dict being built
    det_n,              \* ThreatDetector: packets analysed so far
    det_count,          \* ThreatDetector.packet_count
    det_ports,          \* ThreatDetector.port_activity
    det_info,           \* the packet_info analysed last (<<>> if none)
    det_log,            \* data/threat_logs.json
    det_from,           \* history: Len(det_log) before the packet analysed last
    sc_pc, sc_features, sc_model, sc_verdict,  \* the scorer applied on its own
    sc_batch            \* the batch the extractor is applied to on its own

capVars == <<cap_pc, cap_tmp>>
anaVars == <<ana_pc, ana_packets, ana_pred, ana_tmp, snap_at, ana_pub, npred>>
counters == <<total_packets, total_predictions, threats_detected>>
files == <<pred_file, stats_file>>
ctlVars == <<capture_thread, analysis_thread, nsessions, ctl_pc>>
scVars == <<sc_pc, sc_features, sc_model, sc_verdict, sc_batch>>
stVars == <<st_pc, st_stats>>
detVars == <<det_n, det_count, det_ports, det_info, det_log, det_from>>
extVars == <<ana_hist, taken, stop_log, start_log, stVars, detVars>>
vars == <<scope, faults, running, model_loaded, packet_buffer, prediction_queue, counters,
          capVars, anaVars, ctlVars, files, appended, scVars, extVars>>

(***************************************************************************)
(* Frames the capture library hands to _packet_callback.                    *)
(***************************************************************************)
TcpFrame ==
    [kind |-> "ip", src_ip |-> "203.0.113.9", dst_ip |-> "192.168.1.10",
     protocol |-> ProtoTCP, size |-> 1500, ttl |-> 64,
     src_port |-> 443, dst_port |-> 80, flags |-> "S", icmp_type |-> None]

IpFrames == {TcpFrame}

\* packet_data of lines 76-101, stamped with datetime.now().
PacketData(frame, now) ==
    [timestamp |-> now, src_ip |-> frame.src_ip, dst_ip |-> frame.dst_ip,
     protocol |-> frame.protocol, size |-> frame.size, ttl |-> frame.ttl,
     src_port |-> frame.src_port, dst_port |-> frame.dst_port,
     flags |-> frame.flags, icmp_type |-> frame.icmp_type]

\* deque.append without the maxlen eviction.
DequeAppend_NoEvict(buf, x) == Append(buf, x)

\* deque.append discarding the newest entry instead of the oldest.
DequeAppend_EvictNewest(buf, x) ==
    IF Len(buf) < scope.buffer_cap THEN Append(buf, x)
    ELSE Append(SubSeq(buf, 1, Len(buf) - 1), x)

\* appendleft in place of append: the record put in front, the entry at
\* the other end discarded at capacity.
DequeAppend_AtHead(buf, x) ==
    IF Len(buf) < scope.buffer_cap THEN <<x>> \o buf
    ELSE <<x>> \o SubSeq(buf, 1, Len(buf) - 1)

\* deque(maxlen=...).append: the oldest entry is discarded at capacity.
DequeAppend(buf, x) ==
    IF Len(buf) < scope.buffer_cap THEN Append(buf, x) ELSE Append(Tail(buf), x)

\* What the model does when invoked in an analysis cycle.
CycleModelOutcomes ==
    {ModelOutcome(0, 1, TRUE, <<Rat(1, 10), Rat(9, 10)>>),
     ModelOutcome(2, 0, TRUE, <<Rat(1, 2), Rat(1, 2)>>)}

NoStats ==
    [written |-> FALSE, running |-> FALSE, window_size |-> 0, total_packets |-> 0,
     total_predictions |-> 0, threats_detected |-> 0, buffer_size |-> 0,
     prediction_queue_size |-> 0, last_update |-> 0]
NoPublish == [overflow |-> FALSE, clean |-> TRUE, q0 |-> <<>>]

\* The dict of get_statistics before any of its values has been read.
NoStatistics ==
    [total_packets |-> None, total_predictions |-> None, threats_detected |-> None,
     buffer_size |-> None, prediction_queue_size |-> None]

\* The addresses the per-packet detector sees, as their four numbers.
DetSources == {<<203, 0, 113, 9>>, <<192, 168, 1, 10>>, <<10, 0, 0, 7>>}

AnalyzerInit(sc) ==
    /\ scope = sc
    /\ faults = 0
    /\ running = FALSE
    /\ model_loaded \in BOOLEAN
    /\ packet_buffer = <<>>
    /\ prediction_queue = <<>>
    /\ total_packets = 0
    /\ total_predictions = 0
    /\ threats_detected = 0
    /\ capture_thread = 0
    /\ analysis_thread = 0
    /\ nsessions = 0
    /\ cap_pc = [s \in Sessions |-> "unborn"]
    /\ cap_tmp = [s \in Sessions |-> 0]
    /\ ana_pc = [s \in Sessions |-> "unborn"]
    /\ ana_packets = [s \in Sessions |-> <<>>]
    /\ ana_pred = [s \in Sessions |-> <<>>]
    /\ ana_tmp = [s \in Sessions |-> 0]
    /\ ctl_pc = "idle"
    /\ pred_file = [state |-> "absent", records |-> <<>>]
    /\ stats_file = NoStats
    /\ appended = <<>>
    /\ snap_at = [s \in Sessions |-> 0]
    /\ ana_pub = [s \in Sessions |-> NoPublish]
    /\ npred = 0
    /\ ana_hist = [s \in Sessions |-> <<>>]
    /\ taken = <<>>
    /\ stop_log = "none"
    /\ start_log = "none"
    /\ st_pc = "idle"
    /\ st_stats = NoStatistics

\* ThreatDetector.__init__: no packet counted, an empty log.
DetectorOff ==
    /\ det_n = 0
    /\ det_count = [a \in DetSources |-> 0]
    /\ det_ports = [a \in DetSources |-> {}]
    /\ det_info = <<>>
    /\ det_log = <<>>
    /\ det_from = 0

InitIn(sc) == AnalyzerInit(sc) /\ DetectorOff

ScorerOff ==
    /\ sc_pc = "off"
    /\ sc_features = DefaultFeatures
    /\ sc_model = ModelOutcome(0, 0, FALSE, <<Rat(1, 1), Rat(0, 1)>>)
    /\ sc_verdict = <<>>
    /\ sc_batch = <<>>

Init == InitIn(BufferScope) /\ ScorerOff

QueueInit == InitIn(QueueScope) /\ ScorerOff

RestartInit == InitIn(RestartScope) /\ ScorerOff
StatsInit == InitIn(StatsScope) /\ ScorerOff
\* Two sessions, with two packets and one verdict or one packet and two
\* verdicts.
RaceInit == (\E sc \in {RaceScope, RestartScope} : InitIn(sc)) /\ ScorerOff

(***************************************************************************)
(* start() and stop(), called by one controlling thread.                    *)
(***************************************************************************)
\* start() on a running analyzer creating its threads all the same.
StartNoop_Restarts ==
    /\ ctl_pc = "idle"
    /\ running
    /\ nsessions < MaxSessions
    /\ start_log' = "Analyzer already running"
    /\ nsessions' = nsessions + 1
    /\ capture_thread' = nsessions + 1
    /\ analysis_thread' = nsessions + 1
    /\ cap_pc' = [cap_pc EXCEPT ![nsessions + 1] = "sniffing"]
    /\ ana_pc' = [ana_pc EXCEPT ![nsessions + 1] = "test"]
    /\ UNCHANGED <<scope, faults, running, model_loaded, packet_buffer, prediction_queue,
                   counters, cap_tmp,
                   ana_packets, ana_pred, ana_tmp, snap_at, ana_pub, npred, ctl_pc,
                   files, appended, scVars, ana_hist, taken, stop_log, stVars, detVars>>

\* start(), lines 417-419: the analyzer is running; a warning, nothing else.
StartNoop ==
    /\ ctl_pc = "idle"
    /\ running
    /\ start_log' = "Analyzer already running"
    /\ UNCHANGED <<scope, faults, running, model_loaded, packet_buffer, prediction_queue,
                   counters, capVars, anaVars, ctlVars, files, appended, scVars,
                   ana_hist, taken, stop_log, stVars, detVars>>

Start ==
    /\ ctl_pc = "idle"
    /\ ~running
    /\ nsessions < scope.sessions
    /\ running' = TRUE
    /\ nsessions' = nsessions + 1
    /\ capture_thread' = nsessions + 1
    /\ analysis_thread' = nsessions + 1
    /\ cap_pc' = [cap_pc EXCEPT ![nsessions + 1] = "sniffing"]
    /\ ana_pc' = [ana_pc EXCEPT ![nsessions + 1] = "test"]
    /\ start_log' = "Real-time analyzer started"
    /\ UNCHANGED <<scope, faults, model_loaded, packet_buffer, prediction_queue, counters, cap_tmp,
                   ana_packets, ana_pred, ana_tmp, snap_at, ana_pub, npred, ctl_pc,
                   files, appended, scVars, ana_hist, taken, stop_log, stVars, detVars>>

\* stop(), lines 442-443.
StopFlag ==
    /\ ctl_pc = "idle"
    /\ stop_log' = "Stopping analyzer..."
    /\ running' = FALSE
    /\ ctl_pc' = "join_capture"
    /\ UNCHANGED <<scope, faults, model_loaded, packet_buffer, prediction_queue, counters, capVars,
                   anaVars, capture_thread, analysis_thread, nsessions,
                   files, appended, scVars, ana_hist, taken, start_log, stVars, detVars>>

CaptureAlive(s) == cap_pc[s] \in {"sniffing", "count_store", "filter"}
AnalysisAlive(s) == ana_pc[s] \notin {"unborn", "done"}

\* stop(), lines 446-447: join returns when the thread has ended or after the
\* timeout, whichever comes first.
JoinCapture ==
    /\ ctl_pc = "join_capture"
    /\ ctl_pc' = "join_analysis"
    /\ UNCHANGED <<scope, faults, running, model_loaded, packet_buffer, prediction_queue, counters,
                   capVars, anaVars, capture_thread, analysis_thread, nsessions,
                   files, appended, scVars, extVars>>

\* stop(), lines 448-451: the second join, then the log of line 451.
JoinAnalysis ==
    /\ ctl_pc = "join_analysis"
    /\ ctl_pc' = "idle"
    /\ stop_log' = "Analyzer stopped"
    /\ UNCHANGED <<scope, faults, running, model_loaded, packet_buffer, prediction_queue, counters,
                   capVars, anaVars, capture_thread, analysis_thread, nsessions,
                   files, appended, scVars, ana_hist, taken, start_log, stVars, detVars>>

(***************************************************************************)
(* The capture thread: sniff(prn=_packet_callback, stop_filter=...).  For   *)
(* each frame the library calls the callback, then the stop filter.         *)
(***************************************************************************)
\* The frame counted before the test for an IP layer.
CallbackNonIp_Counts(s) ==
    /\ cap_pc[s] = "sniffing"
    /\ total_packets' = total_packets + 1
    /\ cap_pc' = [cap_pc EXCEPT ![s] = "filter"]
    /\ UNCHANGED <<scope, faults, running, model_loaded, packet_buffer, prediction_queue,
                   total_predictions, threats_detected,
                   cap_tmp, anaVars, ctlVars, files, appended, scVars, extVars>>

\* _packet_callback on a frame without an IP layer: line 72-73.
CallbackNonIp(s) ==
    /\ cap_pc[s] = "sniffing"
    /\ cap_pc' = [cap_pc EXCEPT ![s] = "filter"]
    /\ UNCHANGED <<scope, faults, running, model_loaded, packet_buffer, prediction_queue, counters,
                   cap_tmp, anaVars, ctlVars, files, appended, scVars, extVars>>

\* The packet counted although its record could not be built.
CallbackRaises_Counts(s) ==
    /\ faults < scope.faults
    /\ faults' = faults + 1
    /\ total_packets' = total_packets + 1
    /\ cap_pc[s] = "sniffing"
    /\ cap_pc' = [cap_pc EXCEPT ![s] = "filter"]
    /\ UNCHANGED <<scope, running, model_loaded, packet_buffer, prediction_queue,
                   total_predictions, threats_detected,
                   cap_tmp, anaVars, ctlVars, files, appended, scVars, extVars>>

\* _packet_callback on a packet whose fields cannot be read: lines 76-101
\* raise, line 107-108 logs.
CallbackRaises(s) ==
    /\ faults < scope.faults
    /\ faults' = faults + 1
    /\ cap_pc[s] = "sniffing"
    /\ cap_pc' = [cap_pc EXCEPT ![s] = "filter"]
    /\ UNCHANGED <<scope, running, model_loaded, packet_buffer, prediction_queue, counters,
                   cap_tmp, anaVars, ctlVars, files, appended, scVars, extVars>>

\* _packet_callback on an IP packet: the append of line 104 and the read of
\* self.total_packets += 1 (line 105).
CallbackAppend(s, frame) ==
    /\ cap_pc[s] = "sniffing"
    /\ Len(appended) < scope.packets
    /\ LET rec == PacketData(frame, Len(appended) + 1)
       IN /\ packet_buffer' = DequeAppend(packet_buffer, rec)
          /\ appended' = Append(appended, rec)
    /\ cap_tmp' = [cap_tmp EXCEPT ![s] = total_packets]
    /\ cap_pc' = [cap_pc EXCEPT ![s] = "count_store"]
    /\ UNCHANGED <<scope, faults, running, model_loaded, prediction_queue, counters,
                   anaVars, ctlVars, files, scVars, extVars>>

\* The write of self.total_packets += 1; the callback returns.
PacketCountStore(s) ==
    /\ cap_pc[s] = "count_store"
    /\ total_packets' = cap_tmp[s] + 1
    /\ cap_pc' = [cap_pc EXCEPT ![s] = "filter"]
    /\ UNCHANGED <<scope, faults, running, model_loaded, packet_buffer, prediction_queue,
                   total_predictions, threats_detected, cap_tmp,
                   anaVars, ctlVars, files, appended, scVars, extVars>>

\* stop_filter=lambda _: not self.running (line 119), after each callback.
StopFilter(s) ==
    /\ cap_pc[s] = "filter"
    /\ cap_pc' = [cap_pc EXCEPT ![s] = IF running THEN "sniffing" ELSE "finished"]
    /\ UNCHANGED <<scope, faults, running, model_loaded, packet_buffer, prediction_queue, counters,
                   cap_tmp, anaVars, ctlVars, files, appended, scVars, extVars>>

\* sniff raises (no such interface, no permission): lines 121-123.
CaptureError(s) ==
    /\ cap_pc[s] = "sniffing"
    /\ running' = FALSE
    /\ cap_pc' = [cap_pc EXCEPT ![s] = "failed"]
    /\ UNCHANGED <<scope, faults, model_loaded, packet_buffer, prediction_queue, counters,
                   cap_tmp, anaVars, ctlVars, files, appended, scVars, extVars>>

(***************************************************************************)
(* The analysis thread: _analysis_loop.                                      *)
(***************************************************************************)
\* Another party has operated on the queue: every publish in progress on a
\* full queue, other than that of thread s, has been interfered with.
Disturbed(s) ==
    [t \in Sessions |->
        IF t # s /\ ana_pub[t].overflow THEN [ana_pub[t] EXCEPT !.clean = FALSE]
        ELSE ana_pub[t]]

\* while self.running (line 304); time.sleep follows when the test passes.
LoopTest(s) ==
    /\ ana_pc[s] = "test"
    /\ ana_pc' = [ana_pc EXCEPT ![s] = IF running THEN "sleep" ELSE "done"]
    /\ UNCHANGED <<scope, faults, running, model_loaded, packet_buffer, prediction_queue, counters,
                   capVars, ana_packets, ana_pred, ana_tmp, snap_at, ana_pub, npred,
                   ctlVars, files, appended, scVars, extVars>>

\* The cycle skipped when no packet has arrived since the previous copy.
CycleEmpty_NoNewPackets(s) ==
    /\ ana_pc[s] = "sleep"
    /\ snap_at[s] = Len(appended)
    /\ ana_packets' = [ana_packets EXCEPT ![s] = <<>>]
    /\ snap_at' = [snap_at EXCEPT ![s] = Len(appended)]
    /\ ana_pc' = [ana_pc EXCEPT ![s] = "test"]
    /\ UNCHANGED <<scope, faults, running, model_loaded, packet_buffer, prediction_queue, counters,
                   capVars, ana_pred, ana_tmp, ana_pub, npred,
                   ctlVars, files, appended, scVars, extVars>>

\* Lines 307-313 when the copy of the buffer is empty: continue.
CycleEmpty(s) ==
    /\ ana_pc[s] = "sleep"
    /\ packet_buffer = <<>>
    /\ ana_packets' = [ana_packets EXCEPT ![s] = packet_buffer]
    /\ snap_at' = [snap_at EXCEPT ![s] = Len(appended)]
    /\ ana_pc' = [ana_pc EXCEPT ![s] = "test"]
    /\ UNCHANGED <<scope, faults, running, model_loaded, packet_buffer, prediction_queue, counters,
                   capVars, ana_pred, ana_tmp, ana_pub, npred,
                   ctlVars, files, appended, scVars, extVars>>

\* The handler of line 352-353 ending the loop by clearing the flag.
CycleExtractFails_StopsLoop(s) ==
    /\ faults < scope.faults
    /\ faults' = faults + 1
    /\ ana_pc[s] = "sleep"
    /\ packet_buffer # <<>>
    /\ running' = FALSE
    /\ ana_packets' = [ana_packets EXCEPT ![s] = packet_buffer]
    /\ snap_at' = [snap_at EXCEPT ![s] = Len(appended)]
    /\ ana_pc' = [ana_pc EXCEPT ![s] = "test"]
    /\ UNCHANGED <<scope, model_loaded, packet_buffer, prediction_queue, counters,
                   capVars, ana_pred, ana_tmp, ana_pub, npred,
                   ctlVars, files, appended, scVars, extVars>>

\* The cycle counted as a prediction although it produced none.
CycleExtractFails_CountsVerdict(s) ==
    /\ faults < scope.faults
    /\ faults' = faults + 1
    /\ total_predictions' = total_predictions + 1
    /\ ana_pc[s] = "sleep"
    /\ packet_buffer # <<>>
    /\ ana_packets' = [ana_packets EXCEPT ![s] = packet_buffer]
    /\ snap_at' = [snap_at EXCEPT ![s] = Len(appended)]
    /\ ana_pc' = [ana_pc EXCEPT ![s] = "test"]
    /\ UNCHANGED <<scope, running, model_loaded, packet_buffer, prediction_queue,
                   total_packets, threats_detected,
                   capVars, ana_pred, ana_tmp, ana_pub, npred,
                   ctlVars, files, appended, scVars, extVars>>

\* Lines 307-316 when extract_flow_features raises: line 352-353 logs and
\* the loop goes on.
CycleExtractFails(s) ==
    /\ faults < scope.faults
    /\ faults' = faults + 1
    /\ ana_pc[s] = "sleep"
    /\ packet_buffer # <<>>
    /\ ana_packets' = [ana_packets EXCEPT ![s] = packet_buffer]
    /\ snap_at' = [snap_at EXCEPT ![s] = Len(appended)]
    /\ ana_pc' = [ana_pc EXCEPT ![s] = "test"]
    /\ UNCHANGED <<scope, running, model_loaded, packet_buffer, prediction_queue, counters,
                   capVars, ana_pred, ana_tmp, ana_pub, npred,
                   ctlVars, files, appended, scVars, extVars>>

\* The buffer cleared once it has been copied.
CycleScore_Drains(s, m) ==
    /\ ana_pc[s] = "sleep"
    /\ packet_buffer # <<>>
    /\ npred < scope.verdicts
    /\ ana_packets' = [ana_packets EXCEPT ![s] = packet_buffer]
    /\ snap_at' = [snap_at EXCEPT ![s] = Len(appended)]
    /\ ana_pred' = [ana_pred EXCEPT ![s] =
            <<predict_threat(model_loaded, m, extract_flow_features(packet_buffer),
                             npred + 1, npred + 1)>>]
    /\ npred' = npred + 1
    /\ packet_buffer' = <<>>
    /\ ana_pc' = [ana_pc EXCEPT ![s] = "put"]
    /\ UNCHANGED <<scope, faults, running, model_loaded, prediction_queue, counters,
                   capVars, ana_tmp, ana_pub,
                   ctlVars, files, appended, scVars, extVars>>

\* Lines 307-319: copy the buffer, extract the features, score them.
CycleScore(s, m) ==
    /\ ana_pc[s] = "sleep"
    /\ packet_buffer # <<>>
    /\ npred < scope.verdicts
    /\ ana_packets' = [ana_packets EXCEPT ![s] = packet_buffer]
    /\ snap_at' = [snap_at EXCEPT ![s] = Len(appended)]
    /\ ana_pred' = [ana_pred EXCEPT ![s] =
            <<predict_threat(model_loaded, m, extract_flow_features(packet_buffer),
                             npred + 1, npred + 1)>>]
    /\ npred' = npred + 1
    /\ ana_pc' = [ana_pc EXCEPT ![s] = "put"]
    /\ UNCHANGED <<scope, faults, running, model_loaded, packet_buffer, prediction_queue, counters,
                   capVars, ana_tmp, ana_pub,
                   ctlVars, files, appended, scVars, extVars>>

\* put in place of put_nowait: the caller waits for room.
PutNowait_Blocking(s) ==
    /\ ana_pc[s] = "put"
    /\ Len(prediction_queue) < scope.queue_cap
    /\ prediction_queue' = Append(prediction_queue, ana_pred[s][1])
    /\ ana_pub' = Disturbed(s)
    /\ ana_tmp' = [ana_tmp EXCEPT ![s] = total_predictions]
    /\ ana_pc' = [ana_pc EXCEPT ![s] = "pred_store"]
    /\ UNCHANGED <<scope, faults, running, model_loaded, packet_buffer, counters,
                   capVars, ana_packets, ana_pred, snap_at, npred,
                   ctlVars, files, appended, scVars, extVars>>

\* put_nowait (line 323): inserts, or raises queue.Full at capacity.  After
\* the insertion comes the read of self.total_predictions += 1 (line 332).
PutNowait(s) ==
    /\ ana_pc[s] = "put"
    /\ IF Len(prediction_queue) < scope.queue_cap
       THEN /\ prediction_queue' = Append(prediction_queue, ana_pred[s][1])
            /\ ana_pub' = Disturbed(s)
            /\ ana_tmp' = [ana_tmp EXCEPT ![s] = total_predictions]
            /\ ana_pc' = [ana_pc EXCEPT ![s] = "pred_store"]
       ELSE /\ prediction_queue' = prediction_queue
            /\ ana_pub' = [ana_pub EXCEPT ![s] =
                    [overflow |-> TRUE, clean |-> TRUE, q0 |-> prediction_queue]]
            /\ ana_tmp' = ana_tmp
            /\ ana_pc' = [ana_pc EXCEPT ![s] = "drop"]
    /\ UNCHANGED <<scope, faults, running, model_loaded, packet_buffer, counters,
                   capVars, ana_packets, ana_pred, snap_at, npred,
                   ctlVars, files, appended, scVars, extVars>>

\* The queue emptied from the wrong end: the newest verdict removed.
DropOldest_DropsNewest(s) ==
    /\ ana_pc[s] = "drop"
    /\ IF prediction_queue # <<>>
       THEN /\ prediction_queue' = SubSeq(prediction_queue, 1, Len(prediction_queue) - 1)
            /\ ana_pub' = Disturbed(s)
            /\ ana_tmp' = ana_tmp
            /\ ana_pc' = [ana_pc EXCEPT ![s] = "reput"]
       ELSE /\ prediction_queue' = prediction_queue
            /\ ana_pub' = ana_pub
            /\ ana_tmp' = [ana_tmp EXCEPT ![s] = total_predictions]
            /\ ana_pc' = [ana_pc EXCEPT ![s] = "pred_store"]
    /\ UNCHANGED <<scope, faults, running, model_loaded, packet_buffer, counters,
                   capVars, ana_packets, ana_pred, snap_at, npred,
                   ctlVars, files, appended, scVars, extVars>>

\* get_nowait (line 327): removes the oldest verdict; on an empty queue it
\* raises queue.Empty, which the bare except of line 329 swallows, and the
\* read of line 332 follows.
DropOldest(s) ==
    /\ ana_pc[s] = "drop"
    /\ IF prediction_queue # <<>>
       THEN /\ prediction_queue' = Tail(prediction_queue)
            /\ ana_pub' = Disturbed(s)
            /\ ana_tmp' = ana_tmp
            /\ ana_pc' = [ana_pc EXCEPT ![s] = "reput"]
       ELSE /\ prediction_queue' = prediction_queue
            /\ ana_pub' = ana_pub
            /\ ana_tmp' = [ana_tmp EXCEPT ![s] = total_predictions]
            /\ ana_pc' = [ana_pc EXCEPT ![s] = "pred_store"]
    /\ UNCHANGED <<scope, faults, running, model_loaded, packet_buffer, counters,
                   capVars, ana_packets, ana_pred, snap_at, npred,
                   ctlVars, files, appended, scVars, extVars>>

\* put_nowait (line 328); queue.Full is swallowed by line 329.  Then the
\* read of line 332.
Reput(s) ==
    /\ ana_pc[s] = "reput"
    /\ IF Len(prediction_queue) < scope.queue_cap
       THEN /\ prediction_queue' = Append(prediction_queue, ana_pred[s][1])
            /\ ana_pub' = Disturbed(s)
       ELSE /\ prediction_queue' = prediction_queue
            /\ ana_pub' = ana_pub
    /\ ana_tmp' = [ana_tmp EXCEPT ![s] = total_predictions]
    /\ ana_pc' = [ana_pc EXCEPT ![s] = "pred_store"]
    /\ UNCHANGED <<scope, faults, running, model_loaded, packet_buffer, counters,
                   capVars, ana_packets, ana_pred, snap_at, npred,
                   ctlVars, files, appended, scVars, extVars>>

\* The write of self.total_predictions += 1 (line 332), the test of line 334
\* and, for a threat, the read of self.threats_detected += 1 (line 335).
PredCountStore(s) ==
    /\ ana_pc[s] = "pred_store"
    /\ total_predictions' = ana_tmp[s] + 1
    /\ ana_pub' = [ana_pub EXCEPT ![s] = NoPublish]
    /\ IF ana_pred[s][1].is_threat
       THEN /\ ana_tmp' = [ana_tmp EXCEPT ![s] = threats_detected]
            /\ ana_pc' = [ana_pc EXCEPT ![s] = "threat_store"]
       ELSE /\ ana_tmp' = ana_tmp
            /\ ana_pc' = [ana_pc EXCEPT ![s] = "save"]
    /\ UNCHANGED <<scope, faults, running, model_loaded, packet_buffer, prediction_queue,
                   total_packets, threats_detected,
                   capVars, ana_packets, ana_pred, snap_at, npred,
                   ctlVars, files, appended, scVars, extVars>>

\* The write of self.threats_detected += 1 (line 335).
ThreatCountStore(s) ==
    /\ ana_pc[s] = "threat_store"
    /\ threats_detected' = ana_tmp[s] + 1
    /\ ana_pc' = [ana_pc EXCEPT ![s] = "save"]
    /\ UNCHANGED <<scope, faults, running, model_loaded, packet_buffer, prediction_queue,
                   total_packets, total_predictions,
                   capVars, ana_packets, ana_pred, ana_tmp, snap_at, ana_pub, npred,
                   ctlVars, files, appended, scVars, extVars>>

\* predictions[:1000]: the oldest records kept.
KeepLast_KeepsFirst(records) ==
    IF Len(records) > scope.hist_cap
    THEN SubSeq(records, 1, scope.hist_cap)
    ELSE records

\* predictions[-1000:] after the append (lines 371-373).
KeepLast(records) ==
    IF Len(records) > scope.hist_cap
    THEN SubSeq(records, Len(records) - scope.hist_cap + 1, Len(records))
    ELSE records

\* Lines 362-368: an absent or unreadable file reads as [].
LoadPredictions == IF pred_file.state = "ok" THEN pred_file.records ELSE <<>>

\* _save_prediction_for_dashboard, lines 358-368: the history is read.
LoadHistory(s) ==
    /\ ana_pc[s] = "save"
    /\ ana_hist' = [ana_hist EXCEPT ![s] = LoadPredictions]
    /\ ana_pc' = [ana_pc EXCEPT ![s] = "write"]
    /\ UNCHANGED <<scope, faults, running, model_loaded, packet_buffer, prediction_queue, counters,
                   capVars, ana_packets, ana_pred, ana_tmp, snap_at, ana_pub, npred,
                   ctlVars, files, appended, scVars, taken, stop_log, start_log, stVars, detVars>>

\* _save_prediction_for_dashboard, lines 371-386: the verdict is appended to
\* what was read and the file is written.
SavePrediction(s) ==
    /\ ana_pc[s] = "write"
    /\ pred_file' = [state |-> "ok",
                     records |-> KeepLast(Append(ana_hist[s], ana_pred[s][1]))]
    /\ ana_hist' = [ana_hist EXCEPT ![s] = <<>>]
    /\ ana_pc' = [ana_pc EXCEPT ![s] = "stats"]
    /\ UNCHANGED <<scope, faults, running, model_loaded, packet_buffer, prediction_queue, counters,
                   capVars, ana_packets, ana_pred, ana_tmp, snap_at, ana_pub, npred,
                   ctlVars, stats_file, appended, scVars, taken, stop_log, start_log, stVars, detVars>>

\* The failure of the write let through to the handler of the loop, which
\* here ends the analysis.
SavePredictionFails_StopsAnalysis(s, opened) ==
    /\ faults < scope.faults
    /\ faults' = faults + 1
    /\ ana_pc[s] = "write"
    /\ pred_file' = IF opened THEN [state |-> "corrupt", records |-> <<>>] ELSE pred_file
    /\ ana_hist' = [ana_hist EXCEPT ![s] = <<>>]
    /\ running' = FALSE
    /\ ana_pc' = [ana_pc EXCEPT ![s] = "stats"]
    /\ UNCHANGED <<scope, model_loaded, packet_buffer, prediction_queue, counters,
                   capVars, ana_packets, ana_pred, ana_tmp, snap_at, ana_pub, npred,
                   ctlVars, stats_file, appended, scVars, taken, stop_log, start_log, stVars, detVars>>

\* _save_prediction_for_dashboard failing: before the file is opened for
\* writing (it is left as it was) or while it is written (it is left
\* unreadable); line 388-389 logs.
SavePredictionFails(s, opened) ==
    /\ faults < scope.faults
    /\ faults' = faults + 1
    /\ ana_pc[s] = "write"
    /\ pred_file' = IF opened THEN [state |-> "corrupt", records |-> <<>>] ELSE pred_file
    /\ ana_hist' = [ana_hist EXCEPT ![s] = <<>>]
    /\ ana_pc' = [ana_pc EXCEPT ![s] = "stats"]
    /\ UNCHANGED <<scope, running, model_loaded, packet_buffer, prediction_queue, counters,
                   capVars, ana_packets, ana_pred, ana_tmp, snap_at, ana_pub, npred,
                   ctlVars, stats_file, appended, scVars, taken, stop_log, start_log, stVars, detVars>>

\* The dict of lines 399-408.
CurrentStats ==
    [written |-> TRUE, running |-> running, window_size |-> WindowSize,
     total_packets |-> total_packets, total_predictions |-> total_predictions,
     threats_detected |-> threats_detected, buffer_size |-> Len(packet_buffer),
     prediction_queue_size |-> Len(prediction_queue), last_update |-> npred]

\* _update_stats_for_dashboard, the file written; the cycle ends.
UpdateStats(s) ==
    /\ ana_pc[s] = "stats"
    /\ stats_file' = CurrentStats
    /\ ana_pc' = [ana_pc EXCEPT ![s] = "test"]
    /\ ana_pred' = [ana_pred EXCEPT ![s] = <<>>]
    /\ ana_packets' = [ana_packets EXCEPT ![s] = <<>>]
    /\ UNCHANGED <<scope, faults, running, model_loaded, packet_buffer, prediction_queue, counters,
                   capVars, ana_tmp, snap_at, ana_pub, npred,
                   ctlVars, pred_file, appended, scVars, extVars>>

\* _update_stats_for_dashboard failing: line 412-413 logs; the cycle ends.
UpdateStatsFails(s) ==
    /\ faults < scope.faults
    /\ faults' = faults + 1
    /\ ana_pc[s] = "stats"
    /\ ana_pc' = [ana_pc EXCEPT ![s] = "test"]
    /\ ana_pred' = [ana_pred EXCEPT ![s] = <<>>]
    /\ ana_packets' = [ana_packets EXCEPT ![s] = <<>>]
    /\ UNCHANGED <<scope, running, model_loaded, packet_buffer, prediction_queue, counters,
                   capVars, ana_tmp, snap_at, ana_pub, npred,
                   ctlVars, files, appended, scVars, extVars>>

(***************************************************************************)
(* The consumer.                                                            *)
(***************************************************************************)
\* The newest verdict taken instead of the oldest.
GetLatestPrediction_TakesNewest ==
    /\ IF prediction_queue # <<>>
       THEN /\ prediction_queue' = SubSeq(prediction_queue, 1, Len(prediction_queue) - 1)
            /\ taken' = <<prediction_queue[Len(prediction_queue)]>>
            /\ ana_pub' = Disturbed(0)
       ELSE /\ prediction_queue' = prediction_queue
            /\ taken' = <<>>
            /\ ana_pub' = ana_pub
    /\ UNCHANGED <<scope, faults, running, model_loaded, packet_buffer, counters,
                   capVars, ana_pc, ana_packets, ana_pred, ana_tmp, snap_at, npred,
                   ctlVars, files, appended, scVars, ana_hist, stop_log, start_log, stVars, detVars>>

\* get_latest_prediction: get_nowait, None on queue.Empty.
GetLatestPrediction ==
    /\ IF prediction_queue # <<>>
       THEN /\ prediction_queue' = Tail(prediction_queue)
            /\ taken' = <<Head(prediction_queue)>>
            /\ ana_pub' = Disturbed(0)
       ELSE /\ prediction_queue' = prediction_queue
            /\ taken' = <<>>
            /\ ana_pub' = ana_pub
    /\ UNCHANGED <<scope, faults, running, model_loaded, packet_buffer, counters,
                   capVars, ana_pc, ana_packets, ana_pred, ana_tmp, snap_at, npred,
                   ctlVars, files, appended, scVars, ana_hist, stop_log, start_log, stVars, detVars>>

(***************************************************************************)
(* get_statistics, called by a thread of its own: the five values of the    *)
(* dict are read one after the other (lines 462-468), and the threads of    *)
(* the analyzer take their steps in between.                                *)
(***************************************************************************)
StatsUnchanged ==
    UNCHANGED <<scope, faults, running, model_loaded, packet_buffer, prediction_queue, counters,
                capVars, anaVars, ctlVars, files, appended, scVars,
                ana_hist, taken, stop_log, start_log, detVars>>

ReadTotalPackets ==
    /\ st_pc = "idle"
    /\ st_stats' = [NoStatistics EXCEPT !.total_packets = total_packets]
    /\ st_pc' = "total_predictions"
    /\ StatsUnchanged

ReadTotalPredictions ==
    /\ st_pc = "total_predictions"
    /\ st_stats' = [st_stats EXCEPT !.total_predictions = total_predictions]
    /\ st_pc' = "threats_detected"
    /\ StatsUnchanged

ReadThreatsDetected ==
    /\ st_pc = "threats_detected"
    /\ st_stats' = [st_stats EXCEPT !.threats_detected = threats_detected]
    /\ st_pc' = "buffer_size"
    /\ StatsUnchanged

ReadBufferSize ==
    /\ st_pc = "buffer_size"
    /\ st_stats' = [st_stats EXCEPT !.buffer_size = Len(packet_buffer)]
    /\ st_pc' = "prediction_queue_size"
    /\ StatsUnchanged

\* The last value is read and the dict is returned.
ReadQueueSize ==
    /\ st_pc = "prediction_queue_size"
    /\ st_stats' = [st_stats EXCEPT !.prediction_queue_size = Len(prediction_queue)]
    /\ st_pc' = "returned"
    /\ StatsUnchanged

GetStatisticsStep ==
    \/ ReadTotalPackets
    \/ ReadTotalPredictions
    \/ ReadThreatsDetected
    \/ ReadBufferSize
    \/ ReadQueueSize

CaptureStep(s) ==
    \/ CallbackNonIp(s)
    \/ CallbackRaises(s)
    \/ \E frame \in IpFrames : CallbackAppend(s, frame)
    \/ PacketCountStore(s)
    \/ StopFilter(s)
    \/ CaptureError(s)

AnalysisStep(s) ==
    \/ LoopTest(s)
    \/ CycleEmpty(s)
    \/ CycleExtractFails(s)
    \/ \E m \in CycleModelOutcomes : CycleScore(s, m)
    \/ PutNowait(s)
    \/ DropOldest(s)
    \/ Reput(s)
    \/ PredCountStore(s)
    \/ ThreatCountStore(s)
    \/ LoadHistory(s)
    \/ SavePrediction(s)
    \/ \E opened \in BOOLEAN : SavePredictionFails(s, opened)
    \/ UpdateStats(s)
    \/ UpdateStatsFails(s)

Next ==
    \/ StartNoop
    \/ Start
    \/ StopFlag
    \/ JoinCapture
    \/ JoinAnalysis
    \/ \E s \in Sessions : CaptureStep(s)
    \/ \E s \in Sessions : AnalysisStep(s)
    \/ GetLatestPrediction

\* The analyzer in the buffer scope.
Spec == Init /\ [][Next]_vars

\* The analyzer in the queue scope.
QueueSpec == QueueInit /\ [][Next]_vars

(***************************************************************************)
(* The analyzer on an interface without IP traffic, restarted: no packet    *)
(* reaches the buffer, every cycle finds it empty.  The threads take their  *)
(* steps (weak fairness); a frame arriving, sniff failing and the calls of  *)
(* start() and stop() are up to the environment.                            *)
(***************************************************************************)
NoTrafficNext ==
    \/ StartNoop
    \/ Start
    \/ StopFlag
    \/ JoinCapture
    \/ JoinAnalysis
    \/ \E s \in Sessions : CallbackNonIp(s)
    \/ \E s \in Sessions : StopFilter(s)
    \/ \E s \in Sessions : CaptureError(s)
    \/ \E s \in Sessions : LoopTest(s)
    \/ \E s \in Sessions : CycleEmpty(s)

FairSpec ==
    /\ RestartInit
    /\ [][NoTrafficNext]_vars
    /\ \A s \in Sessions : WF_vars(LoopTest(s))
    /\ \A s \in Sessions : WF_vars(CycleEmpty(s))
    /\ \A s \in Sessions : WF_vars(StopFilter(s))
    /\ WF_vars(JoinCapture)
    /\ WF_vars(JoinAnalysis)

(***************************************************************************)
(* The analyzer restarted on an interface with IP traffic, when nothing     *)
(* fails and nobody takes verdicts from the queue: the threads of the       *)
(* session that was stopped may still be running next to those of the new   *)
(* session.                                                                 *)
(***************************************************************************)
RaceNext ==
    \/ Start
    \/ StopFlag
    \/ JoinCapture
    \/ JoinAnalysis
    \/ \E s \in Sessions, frame \in IpFrames : CallbackAppend(s, frame)
    \/ \E s \in Sessions : PacketCountStore(s)
    \/ \E s \in Sessions : StopFilter(s)
    \/ \E s \in Sessions : LoopTest(s)
    \/ \E s \in Sessions : CycleEmpty(s)
    \/ \E s \in Sessions, m \in CycleModelOutcomes : CycleScore(s, m)
    \/ \E s \in Sessions : PutNowait(s)
    \/ \E s \in Sessions : DropOldest(s)
    \/ \E s \in Sessions : Reput(s)
    \/ \E s \in Sessions : PredCountStore(s)
    \/ \E s \in Sessions : ThreatCountStore(s)
    \/ \E s \in Sessions : LoadHistory(s)
    \/ \E s \in Sessions : SavePrediction(s)
    \/ \E s \in Sessions : UpdateStats(s)

RaceSpec == RaceInit /\ [][RaceNext]_vars

(***************************************************************************)
(* One session on an interface with IP traffic, when nothing fails, and a   *)
(* caller of get_statistics next to it.                                     *)
(***************************************************************************)
StatsNext ==
    \/ Start
    \/ StopFlag
    \/ JoinCapture
    \/ JoinAnalysis
    \/ \E s \in Sessions, frame \in IpFrames : CallbackAppend(s, frame)
    \/ \E s \in Sessions : PacketCountStore(s)
    \/ \E s \in Sessions : StopFilter(s)
    \/ \E s \in Sessions : LoopTest(s)
    \/ \E s \in Sessions : CycleEmpty(s)
    \/ \E s \in Sessions, m \in CycleModelOutcomes : CycleScore(s, m)
    \/ \E s \in Sessions : PutNowait(s)
    \/ \E s \in Sessions : DropOldest(s)
    \/ \E s \in Sessions : Reput(s)
    \/ \E s \in Sessions : PredCountStore(s)
    \/ \E s \in Sessions : ThreatCountStore(s)
    \/ \E s \in Sessions : LoadHistory(s)
    \/ \E s \in Sessions : SavePrediction(s)
    \/ \E s \in Sessions : UpdateStats(s)
    \/ GetStatisticsStep

StatsSpec == StatsInit /\ [][StatsNext]_vars

(***************************************************************************)
(* The scorer applied on its own to a feature vector.                       *)
(***************************************************************************)
ScorerRates ==
    {Rat(0, 1), Rat(100, 1), Rat(201, 2), Rat(101, 1), Rat(150, 1), Rat(200, 1),
     Rat(300, 1)}
ScorerPorts == {0, 50, 51, 100, 120}
ScorerSizes == {1400, 1401}
ScorerTcpCounts == {10, 11}
ScorerEntropies == {Rat(-1, 1000000), Rat(499, 1000), Rat(1, 2), Rat(1, 1)}
ScorerTotals == {20, 21}

ScorerFeatureInputs ==
    {[DefaultFeatures EXCEPT !.packets_per_second = r, !.unique_dst_ports = p,
                             !.max_packet_size = z, !.tcp_packets = t,
                             !.dst_ip_entropy = e, !.total_packets = n] :
        r \in ScorerRates, p \in ScorerPorts, z \in ScorerSizes,
        t \in ScorerTcpCounts, e \in ScorerEntropies, n \in ScorerTotals}

ScorerModelInputs ==
    {ModelOutcome(k, y, h, pr) :
        k \in 0..6, y \in {0, 1}, h \in BOOLEAN,
        pr \in {<<Rat(1, 10), Rat(9, 10)>>, <<Rat(7, 10), Rat(3, 10)>>}}

ScorerInit ==
    /\ InitIn(BufferScope)
    /\ sc_pc = "input"
    /\ sc_features \in ScorerFeatureInputs
    /\ sc_model \in (IF model_loaded THEN ScorerModelInputs
                     ELSE {ModelOutcome(0, 0, FALSE, <<Rat(1, 1), Rat(0, 1)>>)})
    /\ sc_verdict = <<>>
    /\ sc_batch = <<>>

analyzerVars ==
    <<scope, faults, running, model_loaded, packet_buffer, prediction_queue, counters,
      capVars, anaVars, ctlVars, files, appended, extVars>>

\* _rule_based_prediction(features).
ScoreRuleBased ==
    /\ sc_pc = "input"
    /\ sc_verdict' = <<rule_based_prediction(sc_features, 1)>>
    /\ sc_pc' = "rules"
    /\ UNCHANGED <<analyzerVars, sc_features, sc_model, sc_batch>>

\* predict_threat(features).
ScorePredict ==
    /\ sc_pc = "input"
    /\ sc_verdict' = <<predict_threat(model_loaded, sc_model, sc_features, 1, 2)>>
    /\ sc_pc' = "predicted"
    /\ UNCHANGED <<analyzerVars, sc_features, sc_model, sc_batch>>

ScorerNext == ScoreRuleBased \/ ScorePredict

ScorerSpec == ScorerInit /\ [][ScorerNext]_vars

(***************************************************************************)
(* The extractor applied on its own to a batch, and the rules to what it    *)
(* returns.  The batches: every sequence of at most two packets of a few    *)
(* kinds and times, and bursts of TCP packets to many destination ports.    *)
(***************************************************************************)
BatchTimes == {0, 400, 1000, 2500}

\* src_port, dst_port, protocol, size of a packet of the small batches.
BatchKinds ==
    {<<80, 443, ProtoTCP, 1500>>, <<80, 80, ProtoTCP, 60>>,
     <<None, None, ProtoICMP, 84>>, <<53, 1234, ProtoUDP, 60>>,
     <<1234, 22, ProtoTCP, 60>>}

BatchPacket(kind, now) ==
    [timestamp |-> now, src_ip |-> "203.0.113.9", dst_ip |-> "192.168.1.10",
     protocol |-> kind[3], size |-> kind[4], ttl |-> 64,
     src_port |-> kind[1], dst_port |-> kind[2],
     flags |-> IF kind[3] = ProtoTCP THEN "S" ELSE "", icmp_type |-> None]

BatchPackets == {BatchPacket(kind, now) : kind \in BatchKinds, now \in BatchTimes}

SmallBatches ==
    {<<>>} \cup {<<a>> : a \in BatchPackets}
           \cup {<<a, b>> : a \in BatchPackets, b \in BatchPackets}

BurstSizes == {150}
BurstPorts == {51, 100, 149}
BurstSpans == {500, 1000, 1200, 1500, 2000}

\* n TCP packets spread evenly over span ticks, to nports destination ports
\* from 1000 up, all but the first to the same destination address.
Burst(n, nports, span) ==
    [i \in 1..n |->
        [timestamp |-> ((i - 1) * span) \div (n - 1), src_ip |-> "203.0.113.9",
         dst_ip |-> IF i = 1 THEN "192.168.1.11" ELSE "192.168.1.10",
         protocol |-> ProtoTCP, size |-> 60, ttl |-> 64,
         src_port |-> 40000, dst_port |-> 1000 + (i % nports),
         flags |-> "S", icmp_type |-> None]]

Bursts == {Burst(n, k, span) : n \in BurstSizes, k \in BurstPorts, span \in BurstSpans}

ExtractInit ==
    /\ InitIn(BufferScope)
    /\ sc_pc = "batch"
    /\ sc_batch \in SmallBatches \cup Bursts
    /\ sc_features = DefaultFeatures
    /\ sc_model = ModelOutcome(0, 0, FALSE, <<Rat(1, 1), Rat(0, 1)>>)
    /\ sc_verdict = <<>>

\* extract_flow_features(packets).
ExtractFeatures ==
    /\ sc_pc = "batch"
    /\ sc_features' = extract_flow_features(sc_batch)
    /\ sc_pc' = "extracted"
    /\ UNCHANGED <<analyzerVars, sc_model, sc_verdict, sc_batch>>

\* _rule_based_prediction applied to the features extracted.
ScoreExtracted ==
    /\ sc_pc = "extracted"
    /\ sc_verdict' = <<rule_based_prediction(sc_features, 1)>>
    /\ sc_pc' = "scored"
    /\ UNCHANGED <<analyzerVars, sc_features, sc_model, sc_batch>>

ExtractNext == ExtractFeatures \/ ScoreExtracted

ExtractSpec == ExtractInit /\ [][ExtractNext]_vars

(***************************************************************************)
(* The per-packet detector: capture_packets hands every IP packet to        *)
(* ThreatDetector.analyze_packet.  An address is its four numbers; a value  *)
(* of Python carries its type, since == between an int and a str is False.  *)
(***************************************************************************)
PyInt(k) == [type |-> "int", v |-> k]
PyStr(t) == [type |-> "str", v |-> t]
PyEq(a, b) == a.type = b.type /\ a.v = b.v

\* src.startswith("192.168."), src.startswith("10.").
StartsWith192168(a) == a[1] = 192 /\ a[2] = 168
StartsWith10(a) == a[1] = 10

DetDosThreshold == 100
DetScanThreshold == 10
DetLargeSize == 1000

\* The packets sniff(filter="ip") delivers: TCP, UDP and ICMP, of several
\* sizes, from an address outside and from addresses inside.
DetFrames ==
    [src : DetSources, dst : {<<192, 168, 1, 10>>}, proto : {ProtoTCP, ProtoUDP, ProtoICMP},
     size : {60, 1000, 1001, 1500}, port : {80, 8080}]

\* packet_info of process_packet, lines 23-29 and 41-42: proto is the
\* number of the IP header, the ports are None without TCP or UDP.
PacketInfo(frame) ==
    [src |-> frame.src, dst |-> frame.dst, proto |-> PyInt(frame.proto),
     sport |-> IF frame.proto \in {ProtoTCP, ProtoUDP} THEN 40000 ELSE None,
     dport |-> IF frame.proto \in {ProtoTCP, ProtoUDP} THEN frame.port ELSE None,
     size |-> frame.size]

\* _log_threat: the entry appended to the log file.
ThreatEntry(kind, info) ==
    [type |-> kind, src |-> info.src, dst |-> info.dst, proto |-> info.proto,
     size |-> info.size]

\* Lines 60-61.
Rule3Fires(info) ==
    /\ ~StartsWith192168(info.src)
    /\ ~StartsWith10(info.src)
    /\ PyEq(info.proto, PyStr("TCP"))
    /\ info.size > DetLargeSize

\* The detector at work for a while: each address has sent no packet or 100
\* packets, to no port or to ten ports, in the current minute.
DetectorInit ==
    /\ AnalyzerInit(BufferScope)
    /\ ScorerOff
    /\ det_n = 0
    /\ \E c \in {0, DetDosThreshold} : det_count = [a \in DetSources |-> c]
    /\ \E ports \in {{}, 1..DetScanThreshold} : det_ports = [a \in DetSources |-> ports]
    /\ det_info = <<>>
    /\ det_log = <<>>
    /\ det_from = 0

\* process_packet and analyze_packet for one packet; elapsed says whether
\* the minute of the counts is over (line 39).
AnalyzePacket(frame, elapsed) ==
    /\ det_n < MaxDetPackets
    /\ det_n' = det_n + 1
    /\ LET info == PacketInfo(frame)
           count0 == IF elapsed THEN [a \in DetSources |-> 0] ELSE det_count
           ports0 == IF elapsed THEN [a \in DetSources |-> {}] ELSE det_ports
           count1 == [count0 EXCEPT ![info.src] = @ + 1]
           ports1 == IF info.dport # None /\ info.dport # 0
                     THEN [ports0 EXCEPT ![info.src] = @ \cup {info.dport}]
                     ELSE ports0
           log1 == IF count1[info.src] > DetDosThreshold
                   THEN Append(det_log, ThreatEntry("Possible DoS Attack", info))
                   ELSE det_log
           log2 == IF Cardinality(ports1[info.src]) > DetScanThreshold
                   THEN Append(log1, ThreatEntry("Port Scan Detected", info))
                   ELSE log1
           log3 == IF Rule3Fires(info)
                   THEN Append(log2, ThreatEntry("Suspicious Large TCP Packet", info))
                   ELSE log2
       IN /\ det_count' = count1
          /\ det_ports' = ports1
          /\ det_info' = <<info>>
          /\ det_from' = Len(det_log)
          /\ det_log' = log3
    /\ UNCHANGED <<scope, faults, running, model_loaded, packet_buffer, prediction_queue, counters,
                   capVars, anaVars, ctlVars, files, appended, scVars,
                   ana_hist, taken, stop_log, start_log, stVars>>

DetectorNext == \E frame \in DetFrames, elapsed \in BOOLEAN : AnalyzePacket(frame, elapsed)

DetectorSpec == DetectorInit /\ [][DetectorNext]_vars


(***************************************************************************)
(* Properties of the packet buffer.                                         *)
(***************************************************************************)
\* C1: in every reachable state the packet buffer holds at most its capacity
\* of records, whatever the appends and the snapshots taken in between.
BufferBounded == Len(packet_buffer) <= scope.buffer_cap

\* The buffer is full and an append has evicted a record.
BufferBoundedWitness ==
    /\ Len(appended) > scope.buffer_cap
    /\ Len(packet_buffer) = scope.buffer_cap

\* C2: once capacity + k packets (k >= 0) have been appended, a snapshot an
\* analysis thread has taken holds exactly capacity records: the capacity
\* most recently appended ones, oldest first.
SnapshotIsLastCapacity ==
    \A s \in Sessions :
        (snap_at[s] >= scope.buffer_cap /\ ana_packets[s] # <<>>) =>
            /\ Len(ana_packets[s]) = scope.buffer_cap
            /\ \A i \in 1..scope.buffer_cap :
                  ana_packets[s][i] = appended[snap_at[s] - scope.buffer_cap + i]

\* A snapshot taken after more appends than the capacity.
SnapshotIsLastCapacityWitness ==
    \E s \in Sessions :
        /\ snap_at[s] > scope.buffer_cap
        /\ ana_packets[s] # <<>>
        /\ ana_pc[s] = "put"

(***************************************************************************)
(* Properties of the scorer (ScorerSpec).  The conditions are written with  *)
(* the numbers of the specification, not with the operators of the model.   *)
(***************************************************************************)
ScoredByRules == sc_pc = "rules"

RateAbove100 ==
    sc_features.packets_per_second.n > 100 * sc_features.packets_per_second.d

PortsAbove50 == sc_features.unique_dst_ports > 50

LargeTcpTraffic == sc_features.max_packet_size > 1400 /\ sc_features.tcp_packets > 10

LowEntropyPattern ==
    /\ 2 * sc_features.dst_ip_entropy.n < sc_features.dst_ip_entropy.d
    /\ sc_features.total_packets > 20

\* C3: when packets_per_second exceeds 100 the rule-based verdict is a threat
\* of type possible_dos_attack with confidence min(packets_per_second / 200, 1),
\* whatever the other features are.
DosRuleHasPriority ==
    (ScoredByRules /\ RateAbove100) =>
        LET v == sc_verdict[1]
            r == sc_features.packets_per_second
        IN /\ v.is_threat
           /\ v.threat_type = "possible_dos_attack"
           /\ IF r.n >= 200 * r.d
              THEN v.confidence.n = v.confidence.d
              ELSE v.confidence.n * 200 * r.d = r.n * v.confidence.d

\* The rate is above 100 and the conditions of the three later rules hold too.
DosRuleHasPriorityWitness ==
    /\ ScoredByRules
    /\ RateAbove100
    /\ PortsAbove50
    /\ LargeTcpTraffic
    /\ LowEntropyPattern
    /\ ~ (sc_features.packets_per_second.n >= 200 * sc_features.packets_per_second.d)

\* C4: when neither of the first two rules fires, max_packet_size > 1400 with
\* tcp_packets > 10 gives suspicious_large_packets at confidence 0.6, and
\* otherwise dst_ip_entropy < 0.5 with total_packets > 20 gives
\* suspicious_pattern at confidence 0.5; the comparisons are strict, so a
\* value equal to its threshold fires neither rule.
LargeThenPatternRule ==
    (ScoredByRules /\ ~RateAbove100 /\ ~PortsAbove50) =>
        LET v == sc_verdict[1]
        IN /\ LargeTcpTraffic =>
                /\ v.is_threat
                /\ v.threat_type = "suspicious_large_packets"
                /\ 10 * v.confidence.n = 6 * v.confidence.d
           /\ (~LargeTcpTraffic /\ LowEntropyPattern) =>
                /\ v.is_threat
                /\ v.threat_type = "suspicious_pattern"
                /\ 10 * v.confidence.n = 5 * v.confidence.d
           /\ ~LargeTcpTraffic => v.threat_type # "suspicious_large_packets"
           /\ ~LowEntropyPattern => v.threat_type # "suspicious_pattern"

\* The first two rules are silent, the packet size is at its threshold
\* (rule 3 silent) and the conditions of rule 4 hold.
LargeThenPatternRuleWitness ==
    /\ ScoredByRules
    /\ ~RateAbove100
    /\ ~PortsAbove50
    /\ sc_features.max_packet_size = 1400
    /\ sc_features.tcp_packets > 10
    /\ LowEntropyPattern
    /\ sc_verdict[1].threat_type = "suspicious_pattern"

\* C5: the rule-based verdict is not a threat, of type normal, with
\* confidence 0, exactly when none of the four rule conditions holds; it is a
\* threat exactly when at least one holds.
NormalIffNoRuleFires ==
    ScoredByRules =>
        LET v == sc_verdict[1]
            some == RateAbove100 \/ PortsAbove50 \/ LargeTcpTraffic \/ LowEntropyPattern
        IN /\ v.is_threat <=> some
           /\ (~v.is_threat /\ v.threat_type = "normal" /\ v.confidence.n = 0) <=> ~some

\* Every feature sits on its threshold and the verdict is normal.
NormalIffNoRuleFiresWitness ==
    /\ ScoredByRules
    /\ sc_features.packets_per_second = Rat(100, 1)
    /\ sc_features.unique_dst_ports = 50
    /\ sc_features.max_packet_size = 1400
    /\ sc_features.total_packets = 20
    /\ sc_verdict[1].threat_type = "normal"

\* The invocation of the loaded model raised.
ModelRaised ==
    /\ model_loaded
    /\ sc_model.fail_at # 0
    /\ sc_model.fail_at \in {3, 4} => sc_model.has_proba

\* C6: when a model is loaded and its invocation raises, predict_threat
\* returns a verdict with the is_threat, threat_type and confidence of the
\* rule-based verdict for the same feature vector.
FallbackIsRuleBased ==
    (sc_pc = "predicted" /\ ModelRaised) =>
        /\ sc_verdict # <<>>
        /\ LET v == sc_verdict[1]
               r == rule_based_prediction(sc_features, 2)
           IN /\ v.is_threat = r.is_threat
              /\ v.threat_type = r.threat_type
              /\ REq(v.confidence, r.confidence)
              /\ v.features = sc_features

\* The model raised after the confidence was written, and the rules find a
\* threat.
FallbackIsRuleBasedWitness ==
    /\ sc_pc = "predicted"
    /\ ModelRaised
    /\ sc_model.fail_at = 5
    /\ sc_model.has_proba
    /\ sc_verdict[1].is_threat

(***************************************************************************)
(* Properties of the scheduler.                                             *)
(***************************************************************************)
\* C7: the running flag goes from Stopped to Running only by start(), and
\* from Running to Stopped only by stop() or by the failure of sniff; no
\* other step changes it.
RunningChangedOnlyByLifecycle ==
    [][/\ (~running /\ running') => Start
       /\ (running /\ ~running') => (StopFlag \/ \E s \in Sessions : CaptureError(s))]_vars

\* A session that scored a verdict was ended by the failure of its capture.
RunningChangedOnlyByLifecycleWitness ==
    \E s \in Sessions :
        /\ cap_pc[s] = "failed"
        /\ ~running
        /\ total_predictions > 0

\* C8: when sniff fails the running flag becomes false, no capture starts
\* without a call of start(), and the analysis thread of the session whose
\* capture failed eventually ends.
CaptureFailureEndsSession ==
    \A s \in Sessions : (cap_pc[s] = "failed") ~> (ana_pc[s] = "done")

\* C9: a cycle whose copy of the buffer is empty adds no verdict to the
\* queue or to the predictions file, leaves total_predictions unchanged, and
\* writes the statistics file, with buffer_size 0.
EmptyCycleWritesStats ==
    [][\A s \in Sessions :
          (ana_pc[s] = "sleep" /\ packet_buffer = <<>> /\ ana_pc'[s] # "sleep") =>
              /\ prediction_queue' = prediction_queue
              /\ pred_file' = pred_file
              /\ total_predictions' = total_predictions
              /\ stats_file'.written
              /\ stats_file'.buffer_size = 0]_vars

(***************************************************************************)
(* Properties of the prediction queue (QueueSpec).                          *)
(***************************************************************************)
\* C10: a verdict published to a full queue, with no other party operating on
\* the queue meanwhile, leaves the queue as it was without its oldest verdict
\* and with the new verdict at the tail.
PublishOnFullDropsOldest ==
    \A s \in Sessions :
        (ana_pc[s] = "pred_store" /\ ana_pub[s].overflow /\ ana_pub[s].clean) =>
            /\ Len(ana_pub[s].q0) = scope.queue_cap
            /\ prediction_queue = Append(Tail(ana_pub[s].q0), ana_pred[s][1])

\* A publish on a full queue of more than one verdict has completed
\* undisturbed.
PublishOnFullDropsOldestWitness ==
    \E s \in Sessions :
        /\ ana_pc[s] = "pred_store"
        /\ ana_pub[s].overflow
        /\ ana_pub[s].clean
        /\ Len(ana_pub[s].q0) > 1
        /\ ana_pub[s].q0[1] # ana_pub[s].q0[2]

\* C11: the queue never holds more than its capacity of verdicts, and a
\* thread that is publishing is never made to wait: each of the three queue
\* operations of a publish can be taken whatever the consumer has done.
QueueBoundedPublishNeverWaits ==
    /\ Len(prediction_queue) <= scope.queue_cap
    /\ \A s \in Sessions :
          /\ ana_pc[s] = "put" => ENABLED PutNowait(s)
          /\ ana_pc[s] = "drop" => ENABLED DropOldest(s)
          /\ ana_pc[s] = "reput" => ENABLED Reput(s)

\* A verdict is about to be put on a full queue.
QueueBoundedPublishNeverWaitsWitness ==
    \E s \in Sessions :
        /\ ana_pc[s] = "put"
        /\ Len(prediction_queue) = scope.queue_cap
        /\ scope.queue_cap > 1

\* What the predictions file holds when read (an absent or unreadable file
\* reads as empty).
HistoryRead == IF pred_file.state = "ok" THEN pred_file.records ELSE <<>>

\* C12: the predictions file never holds more than its capacity of verdicts;
\* writing a verdict to a full history drops the oldest record and keeps the
\* others, in order, followed by the new one.
HistoryBoundedDropsOldest ==
    /\ [](Len(pred_file.records) <= scope.hist_cap)
    /\ [][\A s \in Sessions :
            (/\ ana_pc[s] = "write"
             /\ ana_pc'[s] = "stats"
             /\ faults' = faults
             /\ ana_hist[s] = HistoryRead) =>
                /\ pred_file'.state = "ok"
                /\ pred_file'.records =
                      IF Len(HistoryRead) < scope.hist_cap
                      THEN Append(HistoryRead, ana_pred[s][1])
                      ELSE Append(Tail(HistoryRead), ana_pred[s][1])]_vars

\* One verdict more than the capacity has been saved: the first is gone, the
\* others are there, oldest first.
HistoryBoundedDropsOldestWitness ==
    /\ pred_file.state = "ok"
    /\ scope.hist_cap > 1
    /\ npred = scope.hist_cap + 1
    /\ Len(pred_file.records) = scope.hist_cap
    /\ \A i \in 1..scope.hist_cap : pred_file.records[i].timestamp = i + 1

StopCalledOn(s) ==
    /\ ctl_pc = "join_capture"
    /\ capture_thread = s
    /\ CaptureAlive(s)

\* C14: after stop() is called on a running analyzer, its capture thread and
\* its analysis thread both end eventually, whether or not a packet arrives.
StopEndsBothThreads ==
    \A s \in Sessions : StopCalledOn(s) ~> (~CaptureAlive(s) /\ ~AnalysisAlive(s))

\* A thread that stop() has waited for is still up when stop() returns.
ThreadOutlivesStop ==
    \/ capture_thread # 0 /\ CaptureAlive(capture_thread)
    \/ analysis_thread # 0 /\ AnalysisAlive(analysis_thread)

\* C15: stop() returns, and when a thread it has waited for is still up at
\* the end of the wait, what it reports is not the clean stop.
StopReportsLiveThread ==
    [][(ctl_pc = "join_analysis" /\ ctl_pc' = "idle" /\ ThreadOutlivesStop) =>
          stop_log' # "Analyzer stopped"]_vars

(***************************************************************************)
(* Properties of the analysis cycle.                                        *)
(***************************************************************************)
\* C16: the packets a cycle hands to the feature extractor were all captured
\* since the previous cycle of that thread, so that no record is in the batch
\* of two cycles.
CycleBatchIsNewPackets ==
    [][\A s \in Sessions :
          (ana_pc[s] = "sleep" /\ ana_pc'[s] = "put") =>
              \A i \in DOMAIN ana_packets'[s] :
                  \E j \in (snap_at[s] + 1)..Len(appended) :
                      ana_packets'[s][i] = appended[j]]_vars

\* C17: copying the buffer gives its contents at that moment, oldest first,
\* and leaves the buffer as it is; an append made afterwards changes no copy
\* already taken.
SnapshotLeavesBuffer ==
    [][\A s \in Sessions :
          /\ (ana_pc[s] = "sleep" /\ ana_pc'[s] # "sleep") =>
                /\ ana_packets'[s] = packet_buffer
                /\ packet_buffer' = packet_buffer
          /\ (packet_buffer' # packet_buffer) => ana_packets'[s] = ana_packets[s]]_vars

\* A packet was appended after the copy in use was taken.
SnapshotLeavesBufferWitness ==
    \E s \in Sessions :
        /\ ana_pc[s] = "put"
        /\ Len(appended) > snap_at[s]
        /\ ana_packets[s] # packet_buffer

(***************************************************************************)
(* Properties of the packet callback.                                       *)
(***************************************************************************)
\* C18: when the callback fails on a packet, the packet is neither appended
\* nor counted, the records in the buffer stay as they are, and the capture
\* goes on to the stop filter and the next frame.
CallbackFailureIsolated ==
    [][\A s \in Sessions :
          (cap_pc[s] = "sniffing" /\ cap_pc'[s] # "sniffing" /\ faults' # faults) =>
              /\ packet_buffer' = packet_buffer
              /\ appended' = appended
              /\ total_packets' = total_packets
              /\ running' = running
              /\ cap_pc'[s] = "filter"]_vars

\* The callback has failed (no analysis cycle has run that could have) and
\* the capture, with a packet in the buffer, is waiting for the next frame.
CallbackFailureIsolatedWitness ==
    \E s \in Sessions :
        /\ faults > 0
        /\ npred = 0
        /\ \A t \in Sessions : snap_at[t] = 0
        /\ cap_pc[s] = "sniffing"
        /\ packet_buffer # <<>>
        /\ total_packets = Len(appended)

\* C19: a frame without an IP layer is dropped without an error: nothing is
\* appended or counted and the capture goes on.
NonIpFrameDiscarded ==
    [][\A s \in Sessions :
          (cap_pc[s] = "sniffing" /\ cap_pc'[s] = "filter" /\ faults' = faults) =>
              /\ packet_buffer' = packet_buffer
              /\ appended' = appended
              /\ total_packets' = total_packets
              /\ running' = running]_vars

\* A frame without an IP layer has gone through the callback of a capture
\* that has seen nothing else.
NonIpFrameDiscardedWitness ==
    \E s \in Sessions :
        /\ cap_pc[s] = "filter"
        /\ faults = 0
        /\ appended = <<>>
        /\ running

\* C20: when the extraction of a cycle fails, nothing is put on the queue or
\* in the predictions file, the two prediction counters stay as they are,
\* the flag is untouched and the thread is back at the test of its loop.
ExtractionFailureSkipsVerdict ==
    [][\A s \in Sessions :
          (ana_pc[s] = "sleep" /\ ana_pc'[s] = "test" /\ packet_buffer # <<>>) =>
              /\ prediction_queue' = prediction_queue
              /\ pred_file' = pred_file
              /\ total_predictions' = total_predictions
              /\ threats_detected' = threats_detected
              /\ running' = running]_vars

\* The cycle after a failed extraction has begun.
ExtractionFailureSkipsVerdictWitness ==
    \E s \in Sessions :
        /\ ana_pc[s] = "sleep"
        /\ ana_packets[s] # <<>>
        /\ running

\* C21: when the writing of the predictions file or of the statistics file
\* fails, the flag, the queue and total_predictions are as before, and the
\* thread goes on: from the predictions file to the statistics file, from
\* the statistics file to the test of the loop.
PersistenceFailureIsolated ==
    [][\A s \in Sessions :
          (ana_pc[s] \in {"write", "stats"} /\ ana_pc'[s] # ana_pc[s] /\ faults' # faults) =>
              /\ running' = running
              /\ prediction_queue' = prediction_queue
              /\ total_predictions' = total_predictions
              /\ ana_pc'[s] = IF ana_pc[s] = "write" THEN "stats" ELSE "test"]_vars

\* The predictions file was left unreadable by a failed write, the verdict
\* of that cycle is on the queue and counted, and the next cycle has begun.
PersistenceFailureIsolatedWitness ==
    \E s \in Sessions :
        /\ faults > 0
        /\ pred_file.state = "corrupt"
        /\ prediction_queue # <<>>
        /\ total_predictions > 0
        /\ running
        /\ ana_pc[s] = "sleep"

\* The batch the extractor was given has been through it.
Extracted == sc_pc \in {"extracted", "scored"}

\* The span, in ticks of the clock, between the earliest and the latest
\* packet of the batch.
BatchSpan ==
    LET gaps == {sc_batch[j].timestamp - sc_batch[i].timestamp :
                    i \in DOMAIN sc_batch, j \in DOMAIN sc_batch}
    IN CHOOSE d \in gaps : \A e \in gaps : e <= d

FeatureNames ==
    {"total_packets", "unique_src_ips", "unique_dst_ips", "unique_src_ports",
     "unique_dst_ports", "total_bytes", "mean_packet_size", "max_packet_size",
     "min_packet_size", "std_packet_size", "tcp_packets", "udp_packets",
     "icmp_packets", "other_protocol_packets", "http_packets", "https_packets",
     "dns_packets", "ssh_packets", "mean_ttl", "min_ttl", "max_ttl", "duration",
     "packets_per_second", "max_src_ip_count", "max_dst_ip_count",
     "src_ip_entropy", "dst_ip_entropy"}

FractionalFeatures ==
    {"mean_packet_size", "std_packet_size", "mean_ttl", "duration",
     "packets_per_second", "src_ip_entropy", "dst_ip_entropy"}

\* C22: the features of an empty batch are the 27 named ones, each of them
\* zero; the features of a batch of one packet have duration, rate and
\* standard deviation of the size zero and total_packets one.
ExtractEdgeCases ==
    Extracted =>
        /\ Len(sc_batch) = 0 =>
              /\ DOMAIN sc_features = FeatureNames
              /\ Cardinality(DOMAIN sc_features) = 27
              /\ \A f \in FeatureNames :
                    IF f \in FractionalFeatures THEN sc_features[f].n = 0
                    ELSE sc_features[f] = 0
        /\ Len(sc_batch) = 1 =>
              /\ sc_features.duration.n = 0
              /\ sc_features.packets_per_second.n = 0
              /\ sc_features.std_packet_size.n = 0
              /\ sc_features.total_packets = 1

\* The features of a batch of one packet have been extracted.
ExtractEdgeCasesWitness ==
    /\ Extracted
    /\ Len(sc_batch) = 1
    /\ sc_features.total_packets = 1
    /\ sc_features.total_bytes > 0
    /\ sc_features.packets_per_second.n = 0

\* C23: for a batch of two packets or more, duration is the span of its
\* timestamps in seconds, the rate is the number of packets over the span
\* or over one second, whichever is longer; so the rate of a batch of under a
\* second is its number of packets and no rate is above the number of
\* packets.
DurationAndRate ==
    (Extracted /\ Len(sc_batch) >= 2) =>
        LET n == Len(sc_batch)
            rate == sc_features.packets_per_second
        IN /\ sc_features.duration.n * TicksPerSecond = BatchSpan * sc_features.duration.d
           /\ IF BatchSpan > TicksPerSecond
              THEN rate.n * BatchSpan = n * TicksPerSecond * rate.d
              ELSE rate.n = n * rate.d
           /\ BatchSpan < TicksPerSecond => rate.n = n * rate.d
           /\ rate.n <= n * rate.d

\* Two packets 0.4 s apart: the rate is 2.
DurationAndRateWitness ==
    /\ Extracted
    /\ Len(sc_batch) = 2
    /\ BatchSpan > 0
    /\ BatchSpan < TicksPerSecond
    /\ sc_features.packets_per_second.n = 2 * sc_features.packets_per_second.d
    /\ sc_features.duration.n > 0

\* The number of packets of the batch with port p as source or destination,
\* counted from the two sides.
PortHits(p) ==
    Cardinality({i \in DOMAIN sc_batch : sc_batch[i].src_port = p})
    + Cardinality({i \in DOMAIN sc_batch : sc_batch[i].dst_port = p})
    - Cardinality({i \in DOMAIN sc_batch :
                      sc_batch[i].src_port = p /\ sc_batch[i].dst_port = p})

\* C24: each of the four counts of well-known ports is the number of packets
\* with that port as source or as destination, whatever the other counts: a
\* packet from port 80 to port 443 is in the count of both, a packet from
\* port 80 to port 80 is once in the count of port 80, a packet without
\* ports is in none.
WellKnownPortCounts ==
    (Extracted /\ Len(sc_batch) >= 1) =>
        /\ sc_features.http_packets = PortHits(80)
        /\ sc_features.https_packets = PortHits(443)
        /\ sc_features.dns_packets = PortHits(53)
        /\ sc_features.ssh_packets = PortHits(22)
        /\ Len(sc_batch) = 1 =>
              LET r == sc_batch[1]
                  hits == sc_features.http_packets + sc_features.https_packets
                          + sc_features.dns_packets + sc_features.ssh_packets
              IN /\ (r.src_port = 80 /\ r.dst_port = 443) =>
                        /\ sc_features.http_packets = 1
                        /\ sc_features.https_packets = 1
                        /\ hits = 2
                 /\ (r.src_port = 80 /\ r.dst_port = 80) =>
                        /\ sc_features.http_packets = 1
                        /\ hits = 1
                 /\ (r.src_port = None /\ r.dst_port = None) => hits = 0

\* One packet from port 80 to port 443 is counted for both ports.
WellKnownPortCountsWitness ==
    /\ Extracted
    /\ Len(sc_batch) = 1
    /\ sc_batch[1].src_port = 80
    /\ sc_batch[1].dst_port = 443
    /\ sc_features.http_packets = 1
    /\ sc_features.https_packets = 1

\* A batch of 150 TCP packets to more than 50 destination ports.
PortScanBurst ==
    /\ Len(sc_batch) = 150
    /\ \A i \in DOMAIN sc_batch : sc_batch[i].protocol = 6
    /\ Cardinality({sc_batch[i].dst_port : i \in DOMAIN sc_batch}) > 50

\* C25: extraction and the rules applied to a batch of 150 TCP packets to
\* more than 50 destination ports: at a rate of at most 100 packets a second
\* the verdict is port_scan_detected with confidence min(ports/100, 1), at a
\* higher rate possible_dos_attack with confidence min(rate/200, 1); when
\* the batch spans a second or less the rate is 150 and the confidence 3/4.
PortScanEndToEnd ==
    (sc_pc = "scored" /\ PortScanBurst) =>
        LET nports == Cardinality({sc_batch[i].dst_port : i \in DOMAIN sc_batch})
            v == sc_verdict[1]
            rate == IF BatchSpan > TicksPerSecond
                    THEN [n |-> 150 * TicksPerSecond, d |-> BatchSpan]
                    ELSE [n |-> 150, d |-> 1]
            slow == rate.n <= 100 * rate.d
        IN /\ v.is_threat
           /\ slow =>
                 /\ v.threat_type = "port_scan_detected"
                 /\ IF nports >= 100 THEN v.confidence.n = v.confidence.d
                    ELSE v.confidence.n * 100 = nports * v.confidence.d
           /\ ~slow =>
                 /\ v.threat_type = "possible_dos_attack"
                 \* rate/200, which is below 1 at 150 packets: 750/span seconds
                 \* for a span above one second, 150/200 otherwise
                 /\ IF BatchSpan > TicksPerSecond
                    THEN v.confidence.n * BatchSpan = 750 * v.confidence.d
                    ELSE v.confidence.n * 200 = 150 * v.confidence.d
           /\ BatchSpan <= TicksPerSecond =>
                 /\ v.threat_type = "possible_dos_attack"
                 /\ sc_features.packets_per_second.n
                        = 150 * sc_features.packets_per_second.d
                 /\ v.confidence.n * 4 = 3 * v.confidence.d

\* 150 packets to 149 ports in 1.5 s, a rate of exactly 100: the verdict is
\* a port scan and its confidence is capped at 1.
PortScanEndToEndWitness ==
    /\ sc_pc = "scored"
    /\ PortScanBurst
    /\ BatchSpan > TicksPerSecond
    /\ Cardinality({sc_batch[i].dst_port : i \in DOMAIN sc_batch}) > 100
    /\ sc_verdict[1].threat_type = "port_scan_detected"
    /\ sc_verdict[1].confidence.n = sc_verdict[1].confidence.d
    /\ sc_features.packets_per_second.n = 100 * sc_features.packets_per_second.d

\* C26: the confidence of every verdict of the scorer, from the model, from
\* the rules and from the rules after the model has failed, is at least 0
\* and at most 1.
ConfidenceInUnitInterval ==
    sc_verdict # <<>> =>
        /\ sc_verdict[1].confidence.d > 0
        /\ sc_verdict[1].confidence.n >= 0
        /\ sc_verdict[1].confidence.n <= sc_verdict[1].confidence.d

\* A rate above 200 packets a second scored by the rules after the model
\* has failed: the confidence is 1.
ConfidenceInUnitIntervalWitness ==
    /\ sc_pc = "predicted"
    /\ model_loaded
    /\ Raises(sc_model)
    /\ sc_features.packets_per_second.n > 200 * sc_features.packets_per_second.d
    /\ sc_verdict[1].threat_type = "possible_dos_attack"
    /\ sc_verdict[1].confidence.n = sc_verdict[1].confidence.d

\* C27: a thread that wakes from its sleep with the flag cleared scores
\* nothing: it goes back to the test of its loop, or ends, without a verdict.
WakeAfterStopScoresNothing ==
    [][\A s \in Sessions :
          (~running /\ ana_pc[s] = "sleep" /\ ana_pc'[s] # "sleep") =>
              /\ ana_pc'[s] \in {"test", "done"}
              /\ ana_pred'[s] = ana_pred[s]
              /\ npred' = npred]_vars

\* C28: a snapshot an analysis thread holds is what the buffer held at one
\* instant between two appends: the records appended up to that instant, or
\* the last capacity of them, each once and in the order of their appends.
SnapshotIsContiguousRun ==
    \A s \in Sessions :
        ana_packets[s] # <<>> =>
            LET n == Len(ana_packets[s])
            IN /\ snap_at[s] <= Len(appended)
               /\ n = IF snap_at[s] < scope.buffer_cap THEN snap_at[s]
                      ELSE scope.buffer_cap
               /\ \A i \in 1..n : ana_packets[s][i] = appended[snap_at[s] - n + i]
               /\ \A i, j \in 1..n : i < j =>
                     ana_packets[s][i].timestamp < ana_packets[s][j].timestamp

\* A snapshot of two records is held while the capture has appended another
\* record since.
SnapshotIsContiguousRunWitness ==
    \E s \in Sessions :
        /\ Len(ana_packets[s]) > 1
        /\ snap_at[s] < Len(appended)
        /\ ana_pc[s] \notin {"unborn", "done"}

\* C29: whenever no callback is between its append and its count,
\* total_packets is the number of records appended since construction.
PacketCountIsAppendCount ==
    (\A s \in Sessions : cap_pc[s] # "count_store") => total_packets = Len(appended)

\* C30: the count of a scored cycle raises total_predictions by exactly one.
CycleCountsOneVerdict ==
    [][\A s \in Sessions :
          (ana_pc[s] = "pred_store" /\ ana_pc'[s] # "pred_store") =>
              total_predictions' = total_predictions + 1]_vars

\* C31: at any time at most one capture thread and at most one analysis
\* thread are alive, whatever the sequence of start() and stop().
OneThreadOfEachKind ==
    /\ Cardinality({s \in Sessions : CaptureAlive(s)}) <= 1
    /\ Cardinality({s \in Sessions : AnalysisAlive(s)}) <= 1

\* C32: the publish of a cycle, with or without the removal of the oldest
\* verdict, leaves the verdict of the cycle as the newest entry of the queue
\* before it is counted.
PublishInsertsVerdict ==
    [][\A s \in Sessions :
          (ana_pc[s] \in {"put", "drop", "reput"} /\ ana_pc'[s] = "pred_store") =>
              /\ prediction_queue' # <<>>
              /\ prediction_queue'[Len(prediction_queue')] = ana_pred[s][1]]_vars

\* C34: in every state threats_detected is at most total_predictions.
ThreatsWithinPredictions == threats_detected <= total_predictions

\* C35: a verdict of predict_threat, from the model, from the rules or from
\* the rules after the model has failed, is flagged as a threat exactly when
\* its category is not "normal".
FlagIffCategoryNotNormal ==
    sc_verdict # <<>> =>
        (sc_verdict[1].is_threat <=> sc_verdict[1].threat_type # "normal")

\* The model has answered 1 without failing: the verdict is flagged and its
\* category is that of the model.
FlagIffCategoryNotNormalWitness ==
    /\ sc_pc = "predicted"
    /\ model_loaded
    /\ ~Raises(sc_model)
    /\ sc_verdict[1].is_threat
    /\ sc_verdict[1].threat_type = "ml_detected_threat"

\* The verdict comes from the rules: called directly, without a model, or
\* after the model has failed.
FromRules ==
    \/ sc_pc = "rules"
    \/ sc_pc = "predicted" /\ (~model_loaded \/ Raises(sc_model))

\* C36: a threat verdict of the rules has a confidence of at least 1/2:
\* above 1/2 for rules 1 and 2, 6/10 for rule 3, 1/2 for rule 4; a verdict that
\* is no threat has confidence 0.
RuleConfidenceAtLeastHalf ==
    (sc_verdict # <<>> /\ FromRules) =>
        LET v == sc_verdict[1]
        IN /\ v.is_threat => 2 * v.confidence.n >= v.confidence.d
           /\ v.threat_type \in {"possible_dos_attack", "port_scan_detected"} =>
                 2 * v.confidence.n > v.confidence.d
           /\ v.threat_type = "suspicious_large_packets" =>
                 10 * v.confidence.n = 6 * v.confidence.d
           /\ v.threat_type = "suspicious_pattern" =>
                 2 * v.confidence.n = v.confidence.d
           /\ ~v.is_threat => v.confidence.n = 0

\* 51 destination ports at a low rate: a port scan with confidence 51/100.
RuleConfidenceAtLeastHalfWitness ==
    /\ sc_pc = "rules"
    /\ sc_features.unique_dst_ports = 51
    /\ sc_verdict[1].threat_type = "port_scan_detected"
    /\ 100 * sc_verdict[1].confidence.n = 51 * sc_verdict[1].confidence.d

\* C38: no step makes the buffer shorter; once a packet has been appended
\* the buffer is not empty, and a thread that wakes and does not fail goes on
\* to publish a verdict on a batch that is not empty.
NoCycleSkippedAfterFirstPacket ==
    [][/\ Len(packet_buffer') >= Len(packet_buffer)
       /\ appended # <<>> => packet_buffer # <<>>
       /\ \A s \in Sessions :
             (appended # <<>> /\ ana_pc[s] = "sleep" /\ ana_pc'[s] # "sleep"
                 /\ faults' = faults) =>
                 /\ ana_pc'[s] = "put"
                 /\ ana_packets'[s] # <<>>
                 /\ ana_pred'[s] # <<>>]_vars

\* A second verdict has been made although one packet only was ever
\* appended.
NoCycleSkippedAfterFirstPacketWitness ==
    \E s \in Sessions :
        /\ ana_pc[s] = "put"
        /\ npred = 2
        /\ Len(appended) = 1
        /\ ana_pred[s] # <<>>

\* C39: once the session is over and its two threads have ended, the
\* statistics file, if it was ever written, says that the analyzer is not
\* running.
StatsFileTracksStop ==
    (/\ nsessions > 0
     /\ ~running
     /\ ctl_pc = "idle"
     /\ \A s \in Sessions : ~CaptureAlive(s) /\ ~AnalysisAlive(s)
     /\ stats_file.written) => ~stats_file.running

\* C37: start() on a running analyzer logs its warning and changes nothing:
\* not the flag, the thread references, the buffer, the queue or the
\* counters, and no thread is created.
StartWhileRunningIsNoop ==
    [][(running /\ start_log' = "Analyzer already running" /\ start_log' # start_log) =>
          /\ UNCHANGED <<running, capture_thread, analysis_thread, nsessions>>
          /\ UNCHANGED <<packet_buffer, prediction_queue, counters>>
          /\ UNCHANGED <<cap_pc, ana_pc>>]_vars

\* start() has been called on the running analyzer, whose buffer, queue and
\* counters were not at their initial values.
StartWhileRunningIsNoopWitness ==
    /\ start_log = "Analyzer already running"
    /\ running
    /\ nsessions = 1
    /\ packet_buffer # <<>>
    /\ prediction_queue # <<>>
    /\ total_predictions > 0

\* C33: in the dict get_statistics returns, threats_detected is at most
\* total_predictions.
StatisticsConsistent ==
    st_pc = "returned" => st_stats.threats_detected <= st_stats.total_predictions

\* C40: for a TCP packet of more than 1000 bytes from an address outside
\* 192.168.* and 10.*, the detector logs "Suspicious Large TCP Packet".
LargeExternalTcpLogged ==
    (/\ det_info # <<>>
     /\ det_info[1].proto.v = 6
     /\ ~(det_info[1].src[1] = 192 /\ det_info[1].src[2] = 168)
     /\ det_info[1].src[1] # 10
     /\ det_info[1].size > 1000) =>
        \E i \in (det_from + 1)..Len(det_log) :
            det_log[i].type = "Suspicious Large TCP Packet"

=============================================================================
